---- MODULE Spec2Model ----
(***************************************************************************)
(* Binance market-data recorder: the order-book diff/snapshot reconciler   *)
(* (SubscribeOrderBookDiff and its decision function                       *)
(* ProcessOrderBookDiffMessage) and the day-rotating batched Recorder.     *)
(*                                                                         *)
(* The specifications share the variables:                                 *)
(*   SpecDecide    the pure decision function on enumerated inputs         *)
(*   Spec          the reconciler loop, one action per select case         *)
(*   SpecRecorder  NewRecorder / Write / rotate / Close on a file system   *)
(*   SpecStream    one listener, its output channel and its consumer       *)
(*   SpecFanOut    snapshot fetcher, on-demand requests and the fan-out    *)
(* SpecStreamFair and SpecFanOutFair add the scheduling of the goroutines. *)
(***************************************************************************)
EXTENDS Integers, Sequences, FiniteSets, TLC

\* Largest update ID the environment produces.
MaxId == 4

\* Update IDs carried by snapshots and diffs (int64 in the source; 0 is the
\* zero value a decoder leaves when the field is absent).
Ids == 0..MaxId

\* OrderBookDiff, reduced to the two fields the reconciler reads:
\* FirstUpdateID (U) and FinalUpdateID (u).  The decoder does not enforce U <= u.
Diffs == [U : Ids, u : Ids]

\* Arguments of the decision function: any int64 triple, here a bounded window
\* around zero.
DecideIds == (0 - MaxId)..MaxId
DecideDiffs == [U : DecideIds, u : DecideIds]

VARIABLES
    \* --- SubscribeOrderBookDiff ---
    lastSnapshotId,    \* local of SubscribeOrderBookDiff
    lastProcessedId,   \* local of SubscribeOrderBookDiff
    pc,                \* "running" inside the for/select loop, "returned" after return
    last,              \* what the latest loop iteration did (its log line, its calls)
    anchor,            \* LastUpdateID of the latest snapshot received, -1 before any
    fwd,               \* diffs passed to diffRecorder.Write since that snapshot (last two)
    \* --- one call of ProcessOrderBookDiffMessage ---
    call,              \* its arguments
    ret,               \* its result, NoRet before the call
    \* --- Recorder and the file system under it ---
    now,               \* NowFunc(), in clock ticks
    fs,                \* the directory: file name -> file
    rec,               \* the *Recorder the owner holds, Nil when it holds none
    res,               \* the Recorder call made in the latest step and the error it
                       \* returned; NoRes when the latest step was not such a call
    written,           \* number of Write calls so far; the next record is written + 1
    encErrs,           \* number of Recorder calls in which a pw.Write returned an error
    plain,             \* every Recorder call so far was NewRecorder or a Write that
                       \* returned nil on the day the recorder was opened
    home,              \* record -> the file whose encoder r.pw was when Write
                       \* appended the record to r.batchBuffer, <<>> if it never did
    \* --- one stream: listener, channel, consumer ---
    ctx,               \* the context: "live" or "cancelled"
    conn,              \* the websocket connection: "none", "open", "closed"
    reader,            \* the reader goroutine: position and the readResult it holds
    listener,          \* listenWebSocket's loop: position, the trade its handler is
                       \* sending, the error it returned
    tradeCh,           \* the channel between listener and consumer
    enqueued,          \* trades the handler has reached `out <- trade` with, in order
    recorded,          \* trades SubscribeTrades has passed to recorder.Write, in order
    frames,            \* number of frames the transport has delivered
    consumer,          \* whether a SubscribeTrades task receives from tradeCh
    writeErrs,         \* ghost: the trades for which recorder.Write returned an error
    \* --- the snapshots of one symbol ---
    rawSnapshotCh,     \* channel: fetcher and requests -> fan-out
    snapshotDiffCh,    \* channel: fan-out -> SubscribeOrderBookDiff
    snapshotRecCh,     \* channel: fan-out -> SubscribeSnapshots
    fanout,            \* the fan-out goroutine: position and the snapshot it holds
    fetcher,           \* StartOrderBookSnapshotFetcher: position and the snapshot it holds
    pending,           \* snapshots held by request goroutines that have fetched
    fetched,           \* number of fetches that have succeeded
    rawOrder,          \* the snapshots sent on rawSnapshotCh, in order
    diffQueued,        \* the snapshots sent on snapshotDiffCh, in order
    recQueued,         \* the snapshots sent on snapshotRecCh, in order
    \* --- the tasks of one symbol and main after its for loop ---
    mainPc,            \* main: "sigChan" (waiting for a signal), "Sleep", "exited"
    lis,               \* listener -> position of the listener and of its wrapper
                       \* goroutine, and the error the listener returned
    fill,              \* listener -> number of events in its output channel
    cons,              \* consumer task -> position ("range": in its receive loop)
    recState,          \* recorder -> "open" or "closed"
    tickFailed,        \* ghost: the fetcher's latest tick ended in a failed fetch
    \* --- main's for loop over the instruments ---
    loop,              \* i: position in instruments; step: "channels", "NewRecorder",
                       \* "go", "sigChan"; k: which NewRecorder call is next
    started,           \* symbol -> the tasks started for it
    opened,            \* symbol -> the recorders opened for it
    requested,         \* symbol -> snapshotRequest() has been called at startup
    \* --- one Logger shared by several tasks ---
    mu,                \* Logger.mu: 0 when unlocked, else the task holding it
    w,                 \* what Logger.w has received, piece by piece
    logPc,             \* task -> position in Log: "idle", "Lock", "Write", "newline", "Unlock"
    logged,            \* task -> number of Log calls that have returned
    \* --- kept beside the reconciler by the specifications that use them ---
    reqs,              \* snapshotRequest calls since the latest snapshot receipt (capped)
    streamU,           \* FinalUpdateID of the latest diff of the stream, -1 before the first
    sent,              \* the diffs passed to diffRecorder.Write, in order
    request            \* the goroutine of main's startup snapshotRequest(): position,
                       \* the snapshot it fetched and that snapshot's LastUpdateID

vars == <<lastSnapshotId, lastProcessedId, pc, last, anchor, fwd, call, ret,
          now, fs, rec, res, written, encErrs, plain, home,
          ctx, conn, reader, listener, tradeCh, enqueued, recorded, frames, consumer, writeErrs,
          rawSnapshotCh, snapshotDiffCh, snapshotRecCh, fanout, fetcher, pending, fetched,
          rawOrder, diffQueued, recQueued,
          mainPc, lis, fill, cons, recState, tickFailed,
          loop, started, opened, requested,
          mu, w, logPc, logged,
          reqs, streamU, sent, request>>

reconcilerVars == <<lastSnapshotId, lastProcessedId, pc, last, anchor, fwd>>
decideVars == <<call, ret>>
recorderVars == <<now, fs, rec, res, written, encErrs, plain, home>>
streamVars == <<ctx, conn, reader, listener, tradeCh, enqueued, recorded, frames, consumer,
                writeErrs>>
fanoutVars == <<rawSnapshotCh, snapshotDiffCh, snapshotRecCh, fanout, fetcher, pending,
                fetched, rawOrder, diffQueued, recQueued>>
taskVars == <<mainPc, lis, fill, cons, recState, tickFailed>>
setupVars == <<loop, started, opened, requested>>
loggerVars == <<mu, w, logPc, logged>>
trackVars == <<reqs, streamU, sent, request>>
pipelineVars == <<streamVars, fanoutVars, taskVars, setupVars, loggerVars>>

----------------------------------------------------------------------------
\* ProcessOrderBookDiffMessage: <<record?, new last processed ID, gap?>>

\* Faulty variant (checked against C1): the first-diff-after-anchor test written with >= instead of >.
ProcessOrderBookDiffMessage_GeFirst(diff, s, p) ==
    IF diff.u <= s THEN <<FALSE, p, FALSE>>
    ELSE IF p = s
         THEN IF diff.U >= s + 1 THEN <<FALSE, p, TRUE>> ELSE <<TRUE, diff.u, FALSE>>
         ELSE IF diff.U # p + 1 THEN <<FALSE, p, TRUE>> ELSE <<TRUE, diff.u, FALSE>>

\* Faulty variant (checked against C2): the stale test written with < instead of <=.
ProcessOrderBookDiffMessage_LtStale(diff, s, p) ==
    IF diff.u < s THEN <<FALSE, p, FALSE>>
    ELSE IF p = s
         THEN IF diff.U > s + 1 THEN <<FALSE, p, TRUE>> ELSE <<TRUE, diff.u, FALSE>>
         ELSE IF diff.U # p + 1 THEN <<FALSE, p, TRUE>> ELSE <<TRUE, diff.u, FALSE>>

\* Faulty variant (checked against C3): the first diff after the anchor is tested like a later one,
\* against lastSnapshotId + 2.
ProcessOrderBookDiffMessage_FirstOff(diff, s, p) ==
    IF diff.u <= s THEN <<FALSE, p, FALSE>>
    ELSE IF p = s
         THEN IF diff.U > s + 2 THEN <<FALSE, p, TRUE>> ELSE <<TRUE, diff.u, FALSE>>
         ELSE IF diff.U # p + 1 THEN <<FALSE, p, TRUE>> ELSE <<TRUE, diff.u, FALSE>>

\* Faulty variant (checked against C4): a later diff is only tested for running ahead (> instead of #).
ProcessOrderBookDiffMessage_GtNext(diff, s, p) ==
    IF diff.u <= s THEN <<FALSE, p, FALSE>>
    ELSE IF p = s
         THEN IF diff.U > s + 1 THEN <<FALSE, p, TRUE>> ELSE <<TRUE, diff.u, FALSE>>
         ELSE IF diff.U > p + 1 THEN <<FALSE, p, TRUE>> ELSE <<TRUE, diff.u, FALSE>>

\* Faulty variant (checked against C8): a stale diff is reported as a gap.
ProcessOrderBookDiffMessage_StaleGap(diff, s, p) ==
    IF diff.u <= s THEN <<FALSE, p, TRUE>>
    ELSE IF p = s
         THEN IF diff.U > s + 1 THEN <<FALSE, p, TRUE>> ELSE <<TRUE, diff.u, FALSE>>
         ELSE IF diff.U # p + 1 THEN <<FALSE, p, TRUE>> ELSE <<TRUE, diff.u, FALSE>>

ProcessOrderBookDiffMessage(diff, s, p) ==
    IF diff.u <= s THEN <<FALSE, p, FALSE>>
    ELSE IF p = s
         THEN IF diff.U > s + 1 THEN <<FALSE, p, TRUE>> ELSE <<TRUE, diff.u, FALSE>>
         ELSE IF diff.U # p + 1 THEN <<FALSE, p, TRUE>> ELSE <<TRUE, diff.u, FALSE>>

----------------------------------------------------------------------------
\* Recorder: file naming, the file system, NewRecorder, Write, flushBuffer,
\* rotate, Close.

\* Last clock tick of a run; the clock counts half days.
MaxTick == 2

\* Write calls in a run, largest batch size, encoder failures in a run.
MaxWrites == 3
MaxBatch == 2
MaxEncErrs == 2

\* One recorder is followed: one instrument of main's list, one data type.
Instruments == {"BTCUSDT"}
DataTypes == {"trade"}

\* t.UTC().Format("2006-01-02"): the UTC day that holds half-day t.
UTCDate(t) == t \div 2

\* fmt.Sprintf("%s_%s_%s.parquet", instrument, dataType, utcDate), as its pieces.
BuildFileName(dataType, instrument, t) ==
    <<instrument, "_", dataType, "_", UTCDate(t), ".parquet">>

Paths == {BuildFileName(d, i, t) : d \in DataTypes, i \in Instruments, t \in 0..MaxTick}

\* A directory entry.  rows: the records handed to the file's encoder (pw.Write
\* returned nil), in order; stopped: WriteStop has finalized the encoder;
\* closed: the file handle has been closed.
NoFile == [exists |-> FALSE, rows |-> <<>>, stopped |-> FALSE, closed |-> FALSE]
NewFile == [exists |-> TRUE, rows |-> <<>>, stopped |-> FALSE, closed |-> FALSE]

Nil == <<>>
NoRes == [op |-> "none", path |-> <<>>, err |-> ""]

RecorderStart ==
    /\ now = 0
    /\ fs = [f \in Paths |-> NoFile]
    /\ rec = Nil
    /\ res = NoRes
    /\ written = 0
    /\ encErrs = 0
    /\ plain = TRUE
    /\ home = [k \in 1..MaxWrites |-> <<>>]

\* What goes wrong in one Recorder call.  Every failure makes the call return,
\* so a call meets at most one: "stat" (os.Stat fails other than with "not
\* exist"), "create" (local.NewLocalFileWriter), "parquet writer"
\* (writer.NewParquetWriter), "WriteStop" (pw.WriteStop), "close"
\* (localFile.Close), or "encoder write" at k: the k-th pw.Write of the call fails.
Fault(kind, at) == [kind |-> kind, at |-> at]
NoFault == Fault("none", 0)
OpenFaults == {Fault(k, 0) : k \in {"none", "stat", "create", "parquet writer"}}
Faults ==
    OpenFaults \cup {Fault("WriteStop", 0), Fault("close", 0)}
        \cup {Fault("encoder write", k) : k \in 1..(MaxBatch + MaxEncErrs)}

\* The fault as flushBuffer sees it after `done` calls of pw.Write: 0 for none.
FailAt(fault, done) ==
    IF fault.kind = "encoder write" /\ fault.at > done THEN fault.at - done ELSE 0

\* FileExists on directory f: true if os.Stat succeeds, false if it reports
\* that the file does not exist, true on any other error.
FileExists(f, filePath, fault) ==
    IF f[filePath].exists THEN TRUE
    ELSE IF fault.kind # "stat" THEN FALSE
    ELSE TRUE

AlreadyExists == "already exists, not resuming recording"

\* Faulty variant (checked against C10): NewRecorder without the FileExists test; local.NewLocalFileWriter
\* (os.Create) then truncates the file.
NewRecorder_NoExistsCheck(instrument, dataType, batchSize, fault) ==
    LET fileName == BuildFileName(dataType, instrument, now)
        currentDate == UTCDate(now)
    IN  /\ rec = Nil
        /\ IF fault.kind = "create"
           THEN /\ res' = [op |-> "NewRecorder", path |-> fileName, err |-> "create"]
                /\ UNCHANGED <<fs, rec>>
           ELSE IF fault.kind = "parquet writer"
           THEN /\ res' = [op |-> "NewRecorder", path |-> fileName, err |-> "parquet writer"]
                /\ fs' = [fs EXCEPT ![fileName] = [NewFile EXCEPT !.closed = TRUE]]
                /\ UNCHANGED rec
           ELSE /\ res' = [op |-> "NewRecorder", path |-> fileName, err |-> ""]
                /\ fs' = [fs EXCEPT ![fileName] = NewFile]
                /\ rec' = <<[instrument |-> instrument, dataType |-> dataType,
                             batchSize |-> batchSize, currentDate |-> currentDate,
                             filePath |-> fileName, localFile |-> fileName,
                             pw |-> fileName, batchBuffer |-> <<>>]>>
        /\ UNCHANGED <<now, written, encErrs, plain, home, trackVars, reconcilerVars, decideVars, pipelineVars>>

\* NewRecorder(instrument, dataType, prototype, batchSize).  localFile and pw
\* are the names of the file the handle and the encoder belong to.
NewRecorder(instrument, dataType, batchSize, fault) ==
    LET fileName == BuildFileName(dataType, instrument, now)
        currentDate == UTCDate(now)
    IN  /\ rec = Nil
        /\ IF FileExists(fs, fileName, fault)
           THEN /\ res' = [op |-> "NewRecorder", path |-> fileName, err |-> AlreadyExists]
                /\ UNCHANGED <<fs, rec>>
           ELSE IF fault.kind = "create"
           THEN /\ res' = [op |-> "NewRecorder", path |-> fileName, err |-> "create"]
                /\ UNCHANGED <<fs, rec>>
           ELSE IF fault.kind = "parquet writer"
           THEN /\ res' = [op |-> "NewRecorder", path |-> fileName, err |-> "parquet writer"]
                /\ fs' = [fs EXCEPT ![fileName] = [NewFile EXCEPT !.closed = TRUE]]
                /\ UNCHANGED rec
           ELSE /\ res' = [op |-> "NewRecorder", path |-> fileName, err |-> ""]
                /\ fs' = [fs EXCEPT ![fileName] = NewFile]
                /\ rec' = <<[instrument |-> instrument, dataType |-> dataType,
                             batchSize |-> batchSize, currentDate |-> currentDate,
                             filePath |-> fileName, localFile |-> fileName,
                             pw |-> fileName, batchBuffer |-> <<>>]>>
        /\ UNCHANGED <<now, written, encErrs, plain, home, trackVars, reconcilerVars, decideVars, pipelineVars>>

\* The k-th pw.Write of a flush over n buffered records returns an error.
EncoderFails(n, k) == k \in 1..n

\* Faulty variant (checked against C14): flushBuffer resets the buffer before it returns the
\* encoder's error.
flushBuffer_ClearOnError(r, f, failAt) ==
    LET n == Len(r.batchBuffer)
    IN  IF EncoderFails(n, failAt)
        THEN [r |-> [r EXCEPT !.batchBuffer = <<>>],
              f |-> [f EXCEPT ![r.pw].rows = @ \o SubSeq(r.batchBuffer, 1, failAt - 1)],
              err |-> "encoder write"]
        ELSE [r |-> [r EXCEPT !.batchBuffer = <<>>],
              f |-> [f EXCEPT ![r.pw].rows = @ \o r.batchBuffer],
              err |-> ""]

\* flushBuffer on recorder r over directory f.  failAt = k in 1..len: pw.Write
\* fails on the k-th buffered record, after the first k-1 were handed over;
\* failAt = 0: no failure.
flushBuffer(r, f, failAt) ==
    LET n == Len(r.batchBuffer)
    IN  IF EncoderFails(n, failAt)
        THEN [r |-> r,
              f |-> [f EXCEPT ![r.pw].rows = @ \o SubSeq(r.batchBuffer, 1, failAt - 1)],
              err |-> "encoder write"]
        ELSE [r |-> [r EXCEPT !.batchBuffer = <<>>],
              f |-> [f EXCEPT ![r.pw].rows = @ \o r.batchBuffer],
              err |-> ""]

\* Faulty variant (checked against C12): rotate resets the buffer without flushing it.
rotate_DropBuffer(r, f, newTime, fault) ==
    LET fl == [r |-> [r EXCEPT !.batchBuffer = <<>>], f |-> f, err |-> ""]
        stopped == [fl.f EXCEPT ![r.pw].stopped = TRUE]
        closed == [stopped EXCEPT ![r.localFile].closed = TRUE]
        newDate == UTCDate(newTime)
        newFileName == BuildFileName(r.dataType, r.instrument, newTime)
    IN  IF fl.err # "" THEN fl
        ELSE IF fault.kind = "WriteStop" THEN [r |-> fl.r, f |-> fl.f, err |-> "WriteStop"]
        ELSE IF fault.kind = "close" \/ stopped[r.localFile].closed
             THEN [r |-> fl.r, f |-> closed, err |-> "close"]
        ELSE IF FileExists(closed, newFileName, fault)
             THEN [r |-> fl.r, f |-> closed, err |-> AlreadyExists]
        ELSE IF fault.kind = "create" THEN [r |-> fl.r, f |-> closed, err |-> "create"]
        ELSE IF fault.kind = "parquet writer"
             THEN [r |-> fl.r,
                   f |-> [closed EXCEPT ![newFileName] = [NewFile EXCEPT !.closed = TRUE]],
                   err |-> "parquet writer"]
        ELSE [r |-> [fl.r EXCEPT !.localFile = newFileName, !.currentDate = newDate,
                                 !.pw = newFileName, !.filePath = newFileName,
                                 !.batchBuffer = <<>>],
              f |-> [closed EXCEPT ![newFileName] = NewFile],
              err |-> ""]

\* Faulty variant (checked against C16): rotate without the FileExists test;
\* local.NewLocalFileWriter (os.Create) then truncates the file.
rotate_NoExistsCheck(r, f, newTime, fault) ==
    LET fl == flushBuffer(r, f, FailAt(fault, 0))
        stopped == [fl.f EXCEPT ![r.pw].stopped = TRUE]
        closed == [stopped EXCEPT ![r.localFile].closed = TRUE]
        newDate == UTCDate(newTime)
        newFileName == BuildFileName(r.dataType, r.instrument, newTime)
    IN  IF fl.err # "" THEN fl
        ELSE IF fault.kind = "WriteStop" THEN [r |-> fl.r, f |-> fl.f, err |-> "WriteStop"]
        ELSE IF fault.kind = "close" \/ stopped[r.localFile].closed
             THEN [r |-> fl.r, f |-> closed, err |-> "close"]
        ELSE IF FALSE
             THEN [r |-> fl.r, f |-> closed, err |-> AlreadyExists]
        ELSE IF fault.kind = "create" THEN [r |-> fl.r, f |-> closed, err |-> "create"]
        ELSE IF fault.kind = "parquet writer"
             THEN [r |-> fl.r,
                   f |-> [closed EXCEPT ![newFileName] = [NewFile EXCEPT !.closed = TRUE]],
                   err |-> "parquet writer"]
        ELSE [r |-> [fl.r EXCEPT !.localFile = newFileName, !.currentDate = newDate,
                                 !.pw = newFileName, !.filePath = newFileName,
                                 !.batchBuffer = <<>>],
              f |-> [closed EXCEPT ![newFileName] = NewFile],
              err |-> ""]

\* rotate(newTime) on recorder r over directory f.
rotate(r, f, newTime, fault) ==
    LET fl == flushBuffer(r, f, FailAt(fault, 0))
        stopped == [fl.f EXCEPT ![r.pw].stopped = TRUE]
        closed == [stopped EXCEPT ![r.localFile].closed = TRUE]
        newDate == UTCDate(newTime)
        newFileName == BuildFileName(r.dataType, r.instrument, newTime)
    IN  IF fl.err # "" THEN fl
        ELSE IF fault.kind = "WriteStop" THEN [r |-> fl.r, f |-> fl.f, err |-> "WriteStop"]
        ELSE IF fault.kind = "close" \/ stopped[r.localFile].closed
             THEN [r |-> fl.r, f |-> closed, err |-> "close"]
        ELSE IF FileExists(closed, newFileName, fault)
             THEN [r |-> fl.r, f |-> closed, err |-> AlreadyExists]
        ELSE IF fault.kind = "create" THEN [r |-> fl.r, f |-> closed, err |-> "create"]
        ELSE IF fault.kind = "parquet writer"
             THEN [r |-> fl.r,
                   f |-> [closed EXCEPT ![newFileName] = [NewFile EXCEPT !.closed = TRUE]],
                   err |-> "parquet writer"]
        ELSE [r |-> [fl.r EXCEPT !.localFile = newFileName, !.currentDate = newDate,
                                 !.pw = newFileName, !.filePath = newFileName,
                                 !.batchBuffer = <<>>],
              f |-> [closed EXCEPT ![newFileName] = NewFile],
              err |-> ""]

\* Faulty variant (checked against C11): Write flushes only once the buffer exceeds batchSize.
Write_FlushAbove(record, fault) ==
    /\ rec # Nil
    /\ written < MaxWrites
    /\ fault.kind = "encoder write" => encErrs < MaxEncErrs
    /\ LET r == rec[1]
           currentDay == UTCDate(now)
           rotates == currentDay # r.currentDate
           rotated == IF rotates
                      THEN rotate(r, fs, now, fault)
                      ELSE [r |-> r, f |-> fs, err |-> ""]
           done == IF rotates THEN Len(r.batchBuffer) ELSE 0
           buffered == [rotated.r EXCEPT !.batchBuffer = Append(@, record)]
           flushes == rotated.err = "" /\ Len(buffered.batchBuffer) > buffered.batchSize
           failsInRotate == rotates /\ EncoderFails(Len(r.batchBuffer), FailAt(fault, 0))
           failsInFlush ==
               flushes /\ EncoderFails(Len(buffered.batchBuffer), FailAt(fault, done))
           out == IF rotated.err # "" THEN rotated
                  ELSE IF flushes
                       THEN flushBuffer(buffered, rotated.f, FailAt(fault, done))
                       ELSE [r |-> buffered, f |-> rotated.f, err |-> ""]
       IN  /\ rec' = <<out.r>>
           /\ fs' = out.f
           /\ res' = [op |-> "Write", path |-> r.filePath, err |-> out.err]
           /\ encErrs' = IF failsInRotate \/ failsInFlush THEN encErrs + 1 ELSE encErrs
           /\ plain' = (plain /\ ~rotates /\ out.err = "")
           /\ home' = IF rotated.err = "" THEN [home EXCEPT ![record] = rotated.r.pw] ELSE home
    /\ written' = written + 1
    /\ UNCHANGED <<now, trackVars, reconcilerVars, decideVars, pipelineVars>>

\* Faulty variant (checked against C15): Write appends the record before it looks at the date.
Write_BufferFirst(record, fault) ==
    /\ rec # Nil
    /\ written < MaxWrites
    /\ fault.kind = "encoder write" => encErrs < MaxEncErrs
    /\ LET r == [rec[1] EXCEPT !.batchBuffer = Append(@, record)]
           currentDay == UTCDate(now)
           rotates == currentDay # r.currentDate
           rotated == IF rotates
                      THEN rotate(r, fs, now, fault)
                      ELSE [r |-> r, f |-> fs, err |-> ""]
           done == IF rotates THEN Len(r.batchBuffer) ELSE 0
           buffered == rotated.r
           flushes == rotated.err = "" /\ Len(buffered.batchBuffer) >= buffered.batchSize
           failsInRotate == rotates /\ EncoderFails(Len(r.batchBuffer), FailAt(fault, 0))
           failsInFlush ==
               flushes /\ EncoderFails(Len(buffered.batchBuffer), FailAt(fault, done))
           out == IF rotated.err # "" THEN rotated
                  ELSE IF flushes
                       THEN flushBuffer(buffered, rotated.f, FailAt(fault, done))
                       ELSE [r |-> buffered, f |-> rotated.f, err |-> ""]
       IN  /\ rec' = <<out.r>>
           /\ fs' = out.f
           /\ res' = [op |-> "Write", path |-> r.filePath, err |-> out.err]
           /\ encErrs' = IF failsInRotate \/ failsInFlush THEN encErrs + 1 ELSE encErrs
           /\ plain' = (plain /\ ~rotates /\ out.err = "")
           /\ home' = IF rotated.err = "" THEN [home EXCEPT ![record] = rotated.r.pw] ELSE home
    /\ written' = written + 1
    /\ UNCHANGED <<now, trackVars, reconcilerVars, decideVars, pipelineVars>>

\* (r *Recorder) Write(record).
Write(record, fault) ==
    /\ rec # Nil
    /\ written < MaxWrites
    /\ fault.kind = "encoder write" => encErrs < MaxEncErrs
    /\ LET r == rec[1]
           currentDay == UTCDate(now)
           rotates == currentDay # r.currentDate
           rotated == IF rotates
                      THEN rotate(r, fs, now, fault)
                      ELSE [r |-> r, f |-> fs, err |-> ""]
           done == IF rotates THEN Len(r.batchBuffer) ELSE 0
           buffered == [rotated.r EXCEPT !.batchBuffer = Append(@, record)]
           flushes == rotated.err = "" /\ Len(buffered.batchBuffer) >= buffered.batchSize
           failsInRotate == rotates /\ EncoderFails(Len(r.batchBuffer), FailAt(fault, 0))
           failsInFlush ==
               flushes /\ EncoderFails(Len(buffered.batchBuffer), FailAt(fault, done))
           out == IF rotated.err # "" THEN rotated
                  ELSE IF flushes
                       THEN flushBuffer(buffered, rotated.f, FailAt(fault, done))
                       ELSE [r |-> buffered, f |-> rotated.f, err |-> ""]
       IN  /\ rec' = <<out.r>>
           /\ fs' = out.f
           /\ res' = [op |-> "Write", path |-> r.filePath, err |-> out.err]
           /\ encErrs' = IF failsInRotate \/ failsInFlush THEN encErrs + 1 ELSE encErrs
           /\ plain' = (plain /\ ~rotates /\ out.err = "")
           /\ home' = IF rotated.err = "" THEN [home EXCEPT ![record] = rotated.r.pw] ELSE home
    /\ written' = written + 1
    /\ UNCHANGED <<now, trackVars, reconcilerVars, decideVars, pipelineVars>>

\* (r *Recorder) Close().
Close(fault) ==
    /\ rec # Nil
    /\ fault.kind = "encoder write" => encErrs < MaxEncErrs
    /\ LET r == rec[1]
           fl == flushBuffer(r, fs, FailAt(fault, 0))
           stopped == [fl.f EXCEPT ![r.pw].stopped = TRUE]
           closed == [stopped EXCEPT ![r.localFile].closed = TRUE]
           out == IF fl.err # "" THEN fl
                  ELSE IF fault.kind = "WriteStop" THEN [r |-> fl.r, f |-> fl.f, err |-> "WriteStop"]
                  ELSE IF fault.kind = "close" \/ stopped[r.localFile].closed
                       THEN [r |-> fl.r, f |-> closed, err |-> "close"]
                  ELSE [r |-> fl.r, f |-> closed, err |-> ""]
       IN  /\ rec' = <<out.r>>
           /\ fs' = out.f
           /\ res' = [op |-> "Close", path |-> r.filePath, err |-> out.err]
           /\ encErrs' = IF EncoderFails(Len(r.batchBuffer), FailAt(fault, 0))
                         THEN encErrs + 1 ELSE encErrs
    /\ plain' = FALSE
    /\ UNCHANGED <<now, written, home, trackVars, reconcilerVars, decideVars, pipelineVars>>

\* The clock moves on by half a day.
Tick ==
    /\ now < MaxTick
    /\ now' = now + 1
    /\ res' = NoRes
    /\ UNCHANGED <<fs, rec, written, encErrs, plain, home, trackVars, reconcilerVars, decideVars, pipelineVars>>

\* A file left by an earlier run: finalized, closed, holding that run's record 0.
OldFile == [exists |-> TRUE, rows |-> <<0>>, stopped |-> TRUE, closed |-> TRUE]

\* The file is in the directory before the recorder is opened (the tests put
\* it there with os.Create).
CreateFile(filePath) ==
    /\ rec = Nil
    /\ ~fs[filePath].exists
    /\ fs' = [fs EXCEPT ![filePath] = OldFile]
    /\ res' = NoRes
    /\ UNCHANGED <<now, rec, written, encErrs, plain, home, trackVars, reconcilerVars, decideVars, pipelineVars>>

----------------------------------------------------------------------------
\* One stream: ListenTrade (listenWebSocket with its reader goroutine and the
\* trade handler), the bounded channel `tradeCh`, and SubscribeTrades behind it.

\* Frames the transport delivers in a run; capacity of the channel `tradeCh`
\* (100 in main, 1 in TestWebSocketContextCancellation).
MaxFrames == 3
QueueCap == 1

\* A readResult on readCh.  kind "trade": a trade event, numbered id; "other":
\* a frame whose EventType is not "trade"; "bad": a frame json.Unmarshal
\* rejects; err: conn.ReadMessage returned an error (or panicked).
NoRead == [err |-> FALSE, kind |-> "none", id |-> 0]
ReadErr == [err |-> TRUE, kind |-> "none", id |-> 0]
FrameKinds == {"trade", "other", "bad"}

ReaderIdle == [pc |-> "none", rr |-> NoRead]

StreamStart ==
    /\ ctx = "live"
    /\ conn = "none"
    /\ reader = ReaderIdle
    /\ listener = [pc |-> "dial", trade |-> 0, ret |-> ""]
    /\ tradeCh = <<>>
    /\ enqueued = <<>>
    /\ recorded = <<>>
    /\ frames = 0
    /\ consumer = FALSE
    /\ writeErrs = {}

\* websocket.DefaultDialer.Dial; on success `defer conn.Close()` is armed and
\* the reader goroutine is started.
Dial(ok) ==
    /\ listener.pc = "dial"
    /\ IF ok
       THEN /\ conn' = "open"
            /\ reader' = [pc |-> "reading", rr |-> NoRead]
            /\ listener' = [listener EXCEPT !.pc = "select"]
       ELSE /\ listener' = [listener EXCEPT !.pc = "returned", !.ret = "failed to dial"]
            /\ UNCHANGED <<conn, reader>>
    /\ UNCHANGED <<ctx, tradeCh, enqueued, recorded, frames, consumer, writeErrs>>
    /\ UNCHANGED <<loggerVars, setupVars, trackVars, reconcilerVars, decideVars, recorderVars, fanoutVars, taskVars>>

\* Reader goroutine: safeReadMessage returns a frame.
ReadMessage(kind) ==
    /\ reader.pc = "reading"
    /\ conn = "open"
    /\ frames < MaxFrames
    /\ frames' = frames + 1
    /\ reader' = [pc |-> "sending", rr |-> [err |-> FALSE, kind |-> kind, id |-> frames + 1]]
    /\ UNCHANGED <<ctx, conn, listener, tradeCh, enqueued, recorded, consumer, writeErrs>>
    /\ UNCHANGED <<loggerVars, setupVars, trackVars, reconcilerVars, decideVars, recorderVars, fanoutVars, taskVars>>

\* Reader goroutine: safeReadMessage returns an error: the transport failed,
\* conn.ReadMessage panicked, or the listener has closed the connection.
ReadMessageError ==
    /\ reader.pc = "reading"
    /\ conn \in {"open", "closed"}
    /\ reader' = [pc |-> "sending", rr |-> ReadErr]
    /\ UNCHANGED <<ctx, conn, listener, tradeCh, enqueued, recorded, frames, consumer, writeErrs>>
    /\ UNCHANGED <<loggerVars, setupVars, trackVars, reconcilerVars, decideVars, recorderVars, fanoutVars, taskVars>>

\* The trade handler of ListenTrade on a frame, up to its send statement:
\* the listener's next position and the trade it holds.
Handler(rr) ==
    IF rr.kind = "trade"
    THEN [pc |-> "handler", trade |-> rr.id, ret |-> ""]
    ELSE [pc |-> "select", trade |-> 0, ret |-> ""]

\* select case rr, ok := <-readCh with rr.err == nil: the reader's send and
\* the listener's receive meet on the unbuffered readCh; the handler runs up
\* to `out <- trade`.  A handler error is logged and the loop goes on.
RecvFrame ==
    /\ listener.pc = "select"
    /\ reader.pc = "sending"
    /\ ~reader.rr.err
    /\ reader' = [pc |-> "reading", rr |-> NoRead]
    /\ listener' = Handler(reader.rr)
    /\ enqueued' = IF reader.rr.kind = "trade" THEN Append(enqueued, reader.rr.id) ELSE enqueued
    /\ UNCHANGED <<ctx, conn, tradeCh, recorded, frames, consumer, writeErrs>>
    /\ UNCHANGED <<loggerVars, setupVars, trackVars, reconcilerVars, decideVars, recorderVars, fanoutVars, taskVars>>

\* select case rr, ok := <-readCh with rr.err != nil: return rr.err; the
\* deferred conn.Close() runs; the reader returns and closes readCh.
RecvError ==
    /\ listener.pc = "select"
    /\ reader.pc = "sending"
    /\ reader.rr.err
    /\ reader' = [pc |-> "done", rr |-> NoRead]
    /\ listener' = [listener EXCEPT !.pc = "returned", !.ret = "read error"]
    /\ conn' = "closed"
    /\ UNCHANGED <<ctx, tradeCh, enqueued, recorded, frames, consumer, writeErrs>>
    /\ UNCHANGED <<loggerVars, setupVars, trackVars, reconcilerVars, decideVars, recorderVars, fanoutVars, taskVars>>

\* select case <-ctx.Done(): return ctx.Err(); the deferred conn.Close() runs.
CtxDone ==
    /\ listener.pc = "select"
    /\ ctx = "cancelled"
    /\ listener' = [listener EXCEPT !.pc = "returned", !.ret = "context canceled"]
    /\ conn' = "closed"
    /\ UNCHANGED <<ctx, reader, tradeCh, enqueued, recorded, frames, consumer, writeErrs>>
    /\ UNCHANGED <<loggerVars, setupVars, trackVars, reconcilerVars, decideVars, recorderVars, fanoutVars, taskVars>>

\* Faulty variant (checked against C18): the handler sends without blocking and drops the
\* trade when the channel is full.
HandlerSend_DropWhenFull ==
    /\ listener.pc = "handler"
    /\ tradeCh' = IF Len(tradeCh) < QueueCap THEN Append(tradeCh, listener.trade) ELSE tradeCh
    /\ listener' = [listener EXCEPT !.pc = "select", !.trade = 0]
    /\ UNCHANGED <<ctx, conn, reader, enqueued, recorded, frames, consumer, writeErrs>>
    /\ UNCHANGED <<loggerVars, setupVars, trackVars, reconcilerVars, decideVars, recorderVars, fanoutVars, taskVars>>

\* The handler's `out <- trade`: proceeds when the channel has room.
HandlerSend ==
    /\ listener.pc = "handler"
    /\ Len(tradeCh) < QueueCap
    /\ tradeCh' = Append(tradeCh, listener.trade)
    /\ listener' = [listener EXCEPT !.pc = "select", !.trade = 0]
    /\ UNCHANGED <<ctx, conn, reader, enqueued, recorded, frames, consumer, writeErrs>>
    /\ UNCHANGED <<loggerVars, setupVars, trackVars, reconcilerVars, decideVars, recorderVars, fanoutVars, taskVars>>

\* cancel(): the token fires.
Cancel ==
    /\ ctx = "live"
    /\ ctx' = "cancelled"
    /\ UNCHANGED <<conn, reader, listener, tradeCh, enqueued, recorded, frames, consumer, writeErrs>>
    /\ UNCHANGED <<loggerVars, setupVars, trackVars, reconcilerVars, decideVars, recorderVars, fanoutVars, taskVars>>

\* go SubscribeTrades(tradeCh, tradeRecorder, logger): main starts the
\* consumer next to the listener; the cancellation test starts none.
StartSubscribe ==
    /\ ~consumer
    /\ consumer' = TRUE
    /\ UNCHANGED <<ctx, conn, reader, listener, tradeCh, enqueued, recorded, frames, writeErrs>>
    /\ UNCHANGED <<loggerVars, setupVars, trackVars, reconcilerVars, decideVars, recorderVars, fanoutVars, taskVars>>

\* Faulty variant (checked against C29): SubscribeTrades returns when Write fails.
SubscribeTrades_StopOnError(writeErr) ==
    /\ consumer
    /\ tradeCh # <<>>
    /\ recorded' = Append(recorded, Head(tradeCh))
    /\ tradeCh' = Tail(tradeCh)
    /\ writeErrs' = IF writeErr THEN writeErrs \cup {Head(tradeCh)} ELSE writeErrs
    /\ consumer' = ~writeErr
    /\ UNCHANGED <<ctx, conn, reader, listener, enqueued, frames>>
    /\ UNCHANGED <<loggerVars, setupVars, trackVars, reconcilerVars, decideVars, recorderVars, fanoutVars, taskVars>>

\* One iteration of SubscribeTrades: receive a trade, pass it to
\* recorder.Write; an error of Write (writeErr) is logged and the loop goes on.
SubscribeTrades(writeErr) ==
    /\ consumer
    /\ tradeCh # <<>>
    /\ recorded' = Append(recorded, Head(tradeCh))
    /\ tradeCh' = Tail(tradeCh)
    /\ writeErrs' = IF writeErr THEN writeErrs \cup {Head(tradeCh)} ELSE writeErrs
    /\ UNCHANGED <<ctx, conn, reader, listener, enqueued, frames, consumer>>
    /\ UNCHANGED <<loggerVars, setupVars, trackVars, reconcilerVars, decideVars, recorderVars, fanoutVars, taskVars>>

----------------------------------------------------------------------------
\* Snapshots of one symbol: the periodic fetcher and the on-demand requests
\* send to rawSnapshotCh; main's fan-out goroutine copies every snapshot to
\* snapshotDiffCh (read by SubscribeOrderBookDiff) and snapshotRecCh (read by
\* SubscribeSnapshots).

\* Fetches that succeed in a run; capacity of the three snapshot channels
\* (10 in main).
MaxSnapshots == 3
SnapCap == 1

\* The snapshot of the id-th successful fetch, and who fetched it.
Snapshot(id, by) == [id |-> id, by |-> by]
NoSnapshot == Snapshot(0, "none")

FanOutStart ==
    /\ rawSnapshotCh = <<>>
    /\ snapshotDiffCh = <<>>
    /\ snapshotRecCh = <<>>
    /\ fanout = [pc |-> "range", snapshot |-> NoSnapshot]
    /\ fetcher = [pc |-> "select", snapshot |-> NoSnapshot]
    /\ pending = {}
    /\ fetched = 0
    /\ rawOrder = <<>>
    /\ diffQueued = <<>>
    /\ recQueued = <<>>

\* Faulty variant (checked against C23): a failed fetch ends the fetcher.
FetcherTick_ReturnOnError(ok) ==
    /\ fetcher.pc = "select"
    /\ IF ok
       THEN /\ fetched < MaxSnapshots
            /\ fetched' = fetched + 1
            /\ fetcher' = [pc |-> "send", snapshot |-> Snapshot(fetched + 1, "fetcher")]
       ELSE /\ fetcher' = [pc |-> "returned", snapshot |-> NoSnapshot]
            /\ UNCHANGED fetched
    /\ UNCHANGED <<rawSnapshotCh, snapshotDiffCh, snapshotRecCh, fanout, pending,
                   rawOrder, diffQueued, recQueued>>
    /\ UNCHANGED <<mainPc, lis, fill, cons, recState>>
    /\ UNCHANGED <<loggerVars, setupVars, trackVars, reconcilerVars, decideVars, recorderVars, streamVars>>

\* StartOrderBookSnapshotFetcher, case <-ticker.C: a failed fetch is printed
\* and the loop continues; a fetched snapshot is taken to the send.
\* The ghost tickFailed is left to the specification that follows it.
FetcherTick(ok) ==
    /\ fetcher.pc = "select"
    /\ IF ok
       THEN /\ fetched < MaxSnapshots
            /\ fetched' = fetched + 1
            /\ fetcher' = [pc |-> "send", snapshot |-> Snapshot(fetched + 1, "fetcher")]
       ELSE UNCHANGED <<fetched, fetcher>>
    /\ UNCHANGED <<rawSnapshotCh, snapshotDiffCh, snapshotRecCh, fanout, pending,
                   rawOrder, diffQueued, recQueued>>
    /\ UNCHANGED <<mainPc, lis, fill, cons, recState>>
    /\ UNCHANGED <<loggerVars, setupVars, trackVars, reconcilerVars, decideVars, recorderVars, streamVars>>

\* StartOrderBookSnapshotFetcher, case out <- *snapshot of the inner select.
FetcherSend ==
    /\ fetcher.pc = "send"
    /\ Len(rawSnapshotCh) < SnapCap
    /\ rawSnapshotCh' = Append(rawSnapshotCh, fetcher.snapshot)
    /\ rawOrder' = Append(rawOrder, fetcher.snapshot)
    /\ fetcher' = [pc |-> "select", snapshot |-> NoSnapshot]
    /\ UNCHANGED <<snapshotDiffCh, snapshotRecCh, fanout, pending, fetched,
                   diffQueued, recQueued>>
    /\ UNCHANGED <<loggerVars, setupVars, trackVars, reconcilerVars, decideVars, recorderVars, streamVars, taskVars>>

\* StartOrderBookSnapshotFetcher, case <-ctx.Done() of either select.
FetcherDone ==
    /\ fetcher.pc \in {"select", "send"}
    /\ ctx = "cancelled"
    /\ fetcher' = [pc |-> "returned", snapshot |-> NoSnapshot]
    /\ UNCHANGED <<rawSnapshotCh, snapshotDiffCh, snapshotRecCh, fanout, pending, fetched,
                   rawOrder, diffQueued, recQueued>>
    /\ UNCHANGED <<loggerVars, setupVars, trackVars, reconcilerVars, decideVars, recorderVars, streamVars, taskVars>>

\* snapshotRequest(): a goroutine fetches once; a failed fetch is logged and
\* the goroutine returns; a fetched snapshot is taken to the send.
SnapshotRequest(ok) ==
    /\ IF ok
       THEN /\ fetched < MaxSnapshots
            /\ fetched' = fetched + 1
            /\ pending' = pending \cup {Snapshot(fetched + 1, "request")}
       ELSE UNCHANGED <<fetched, pending>>
    /\ UNCHANGED <<rawSnapshotCh, snapshotDiffCh, snapshotRecCh, fanout, fetcher,
                   rawOrder, diffQueued, recQueued>>
    /\ UNCHANGED <<loggerVars, setupVars, trackVars, reconcilerVars, decideVars, recorderVars, streamVars, taskVars>>

\* The request goroutine's rawSnapshotCh <- *snapshot.
RequestSend(snapshot) ==
    /\ snapshot \in pending
    /\ Len(rawSnapshotCh) < SnapCap
    /\ rawSnapshotCh' = Append(rawSnapshotCh, snapshot)
    /\ rawOrder' = Append(rawOrder, snapshot)
    /\ pending' = pending \ {snapshot}
    /\ UNCHANGED <<snapshotDiffCh, snapshotRecCh, fanout, fetcher, fetched,
                   diffQueued, recQueued>>
    /\ UNCHANGED <<loggerVars, setupVars, trackVars, reconcilerVars, decideVars, recorderVars, streamVars, taskVars>>

\* Fan-out goroutine: for snapshot := range rawSnapshotCh.
FanOutRange ==
    /\ fanout.pc = "range"
    /\ rawSnapshotCh # <<>>
    /\ fanout' = [pc |-> "snapshotDiffCh", snapshot |-> Head(rawSnapshotCh)]
    /\ rawSnapshotCh' = Tail(rawSnapshotCh)
    /\ UNCHANGED <<snapshotDiffCh, snapshotRecCh, fetcher, pending, fetched,
                   rawOrder, diffQueued, recQueued>>
    /\ UNCHANGED <<loggerVars, setupVars, trackVars, reconcilerVars, decideVars, recorderVars, streamVars, taskVars>>

\* Faulty variant (checked against C19): the fan-out goes back to the range after the first
\* send.
FanOutSendDiff_Only ==
    /\ fanout.pc = "snapshotDiffCh"
    /\ Len(snapshotDiffCh) < SnapCap
    /\ snapshotDiffCh' = Append(snapshotDiffCh, fanout.snapshot)
    /\ diffQueued' = Append(diffQueued, fanout.snapshot)
    /\ fanout' = [pc |-> "range", snapshot |-> NoSnapshot]
    /\ UNCHANGED <<rawSnapshotCh, snapshotRecCh, fetcher, pending, fetched,
                   rawOrder, recQueued>>
    /\ UNCHANGED <<loggerVars, setupVars, trackVars, reconcilerVars, decideVars, recorderVars, streamVars, taskVars>>

\* Fan-out goroutine: snapshotDiffCh <- snapshot.
FanOutSendDiff ==
    /\ fanout.pc = "snapshotDiffCh"
    /\ Len(snapshotDiffCh) < SnapCap
    /\ snapshotDiffCh' = Append(snapshotDiffCh, fanout.snapshot)
    /\ diffQueued' = Append(diffQueued, fanout.snapshot)
    /\ fanout' = [fanout EXCEPT !.pc = "snapshotRecCh"]
    /\ UNCHANGED <<rawSnapshotCh, snapshotRecCh, fetcher, pending, fetched,
                   rawOrder, recQueued>>
    /\ UNCHANGED <<loggerVars, setupVars, trackVars, reconcilerVars, decideVars, recorderVars, streamVars, taskVars>>

\* Fan-out goroutine: snapshotRecCh <- snapshot.
FanOutSendRec ==
    /\ fanout.pc = "snapshotRecCh"
    /\ Len(snapshotRecCh) < SnapCap
    /\ snapshotRecCh' = Append(snapshotRecCh, fanout.snapshot)
    /\ recQueued' = Append(recQueued, fanout.snapshot)
    /\ fanout' = [pc |-> "range", snapshot |-> NoSnapshot]
    /\ UNCHANGED <<rawSnapshotCh, snapshotDiffCh, fetcher, pending, fetched,
                   rawOrder, diffQueued>>
    /\ UNCHANGED <<loggerVars, setupVars, trackVars, reconcilerVars, decideVars, recorderVars, streamVars, taskVars>>

\* Faulty variant (checked against C28): the snapshot case is taken only when no diff is
\* ready.
ReconcilerReceive_DiffFirst ==
    /\ snapshotDiffCh # <<>>
    /\ fill["ListenOrderBookDiff"] = 0
    /\ snapshotDiffCh' = Tail(snapshotDiffCh)
    /\ UNCHANGED <<rawSnapshotCh, snapshotRecCh, fanout, fetcher, pending, fetched,
                   rawOrder, diffQueued, recQueued>>
    /\ UNCHANGED <<loggerVars, setupVars, trackVars, reconcilerVars, decideVars, recorderVars, streamVars, taskVars>>

\* SubscribeOrderBookDiff takes a snapshot from its snapshotCh.
ReconcilerReceive ==
    /\ snapshotDiffCh # <<>>
    /\ snapshotDiffCh' = Tail(snapshotDiffCh)
    /\ UNCHANGED <<rawSnapshotCh, snapshotRecCh, fanout, fetcher, pending, fetched,
                   rawOrder, diffQueued, recQueued>>
    /\ UNCHANGED <<loggerVars, setupVars, trackVars, reconcilerVars, decideVars, recorderVars, streamVars, taskVars>>

\* One iteration of SubscribeSnapshots: receive a snapshot, pass it to
\* recorder.Write.
SubscribeSnapshots ==
    /\ snapshotRecCh # <<>>
    /\ snapshotRecCh' = Tail(snapshotRecCh)
    /\ UNCHANGED <<rawSnapshotCh, snapshotDiffCh, fanout, fetcher, pending, fetched,
                   rawOrder, diffQueued, recQueued>>
    /\ UNCHANGED <<loggerVars, setupVars, trackVars, reconcilerVars, decideVars, recorderVars, streamVars, taskVars>>

----------------------------------------------------------------------------
\* The tasks main starts for one symbol, as the supervisor sees them: the
\* listeners inside their wrapper goroutines, the snapshot fetcher inside its
\* wrapper, the consumers, the recorders, and main after its for loop.
\* Two of the four listeners are followed (ListenAggTrade and ListenBestPrice
\* have the shape of ListenTrade).

Listeners == {"ListenTrade", "ListenOrderBookDiff"}

\* The tasks that receive from channels: the four Subscribe* loops, the
\* reconciler and the fan-out goroutine.
Consumers == {"SubscribeTrades", "SubscribeAggTrades", "SubscribeBestPrice",
              "SubscribeSnapshots", "SubscribeOrderBookDiff", "fan-out"}

\* The five recorders main opens for a symbol.
RecorderTypes == {"trade", "aggTrade", "orderBookDiff", "bestPrice", "snapshot"}

TasksStart ==
    /\ mainPc = "sigChan"
    /\ lis = [l \in Listeners |-> [pc |-> "dial", ret |-> ""]]
    /\ fill = [l \in Listeners |-> 0]
    /\ cons = [c \in Consumers |-> "range"]
    /\ recState = [d \in RecorderTypes |-> "open"]
    /\ tickFailed = FALSE

\* listenWebSocket: websocket.DefaultDialer.Dial.
ListenerDial(l, ok) ==
    /\ lis[l].pc = "dial"
    /\ lis' = [lis EXCEPT ![l] = IF ok THEN [pc |-> "select", ret |-> ""]
                                  ELSE [pc |-> "returned", ret |-> "failed to dial"]]
    /\ UNCHANGED <<mainPc, fill, cons, recState, tickFailed>>
    /\ UNCHANGED <<loggerVars, setupVars, trackVars, reconcilerVars, decideVars, recorderVars, streamVars, fanoutVars>>

\* listenWebSocket: a frame comes through readCh and the handler decodes it,
\* up to its send statement.
ListenerFrame(l) ==
    /\ lis[l].pc = "select"
    /\ lis' = [lis EXCEPT ![l].pc = "handler"]
    /\ UNCHANGED <<mainPc, fill, cons, recState, tickFailed>>
    /\ UNCHANGED <<loggerVars, setupVars, trackVars, reconcilerVars, decideVars, recorderVars, streamVars, fanoutVars>>

\* The handler's `out <- x`: proceeds when the channel has room.
ListenerSend(l) ==
    /\ lis[l].pc = "handler"
    /\ fill[l] < QueueCap
    /\ fill' = [fill EXCEPT ![l] = @ + 1]
    /\ lis' = [lis EXCEPT ![l].pc = "select"]
    /\ UNCHANGED <<mainPc, cons, recState, tickFailed>>
    /\ UNCHANGED <<loggerVars, setupVars, trackVars, reconcilerVars, decideVars, recorderVars, streamVars, fanoutVars>>

\* listenWebSocket: a read error comes through readCh: return rr.err.
ListenerReadError(l) ==
    /\ lis[l].pc = "select"
    /\ lis' = [lis EXCEPT ![l] = [pc |-> "returned", ret |-> "read error"]]
    /\ UNCHANGED <<mainPc, fill, cons, recState, tickFailed>>
    /\ UNCHANGED <<loggerVars, setupVars, trackVars, reconcilerVars, decideVars, recorderVars, streamVars, fanoutVars>>

\* listenWebSocket: case <-ctx.Done(): return ctx.Err().
ListenerCtxDone(l) ==
    /\ lis[l].pc = "select"
    /\ ctx = "cancelled"
    /\ lis' = [lis EXCEPT ![l] = [pc |-> "returned", ret |-> "context canceled"]]
    /\ UNCHANGED <<mainPc, fill, cons, recState, tickFailed>>
    /\ UNCHANGED <<loggerVars, setupVars, trackVars, reconcilerVars, decideVars, recorderVars, streamVars, fanoutVars>>

\* Faulty variant (checked against C22): the wrapper logs the listener's error and does not
\* cancel.
ListenerFailed_NoCancel(l) ==
    /\ lis[l].pc = "returned"
    /\ lis' = [lis EXCEPT ![l].pc = "done"]
    /\ UNCHANGED <<mainPc, fill, cons, recState, tickFailed>>
    /\ UNCHANGED <<loggerVars, setupVars, trackVars, reconcilerVars, decideVars, recorderVars, conn, reader, listener>>
    /\ UNCHANGED <<ctx, tradeCh, enqueued, recorded, frames, consumer, writeErrs, fanoutVars>>

\* main's wrapper goroutine: if err := Listen...(ctx, ...); err != nil
\* { logger.Errorf(...); cancel() }.  A listener never returns nil.
ListenerFailed(l) ==
    /\ lis[l].pc = "returned"
    /\ lis' = [lis EXCEPT ![l].pc = "done"]
    /\ ctx' = "cancelled"
    /\ UNCHANGED <<mainPc, fill, cons, recState, tickFailed>>
    /\ UNCHANGED <<loggerVars, setupVars, trackVars, reconcilerVars, decideVars, recorderVars, conn, reader, listener>>
    /\ UNCHANGED <<tradeCh, enqueued, recorded, frames, consumer, writeErrs, fanoutVars>>

\* One iteration of the listener's consumer (SubscribeTrades, or the diff
\* case of SubscribeOrderBookDiff): receive an event and deal with it.
Consume(l) ==
    /\ fill[l] > 0
    /\ fill' = [fill EXCEPT ![l] = @ - 1]
    /\ UNCHANGED <<mainPc, lis, cons, recState, tickFailed>>
    /\ UNCHANGED <<loggerVars, setupVars, trackVars, reconcilerVars, decideVars, recorderVars, streamVars, fanoutVars>>

\* main's wrapper goroutine of the fetcher: StartOrderBookSnapshotFetcher
\* has returned ctx.Err(); logger.Errorf(...); cancel().
FetcherFailed ==
    /\ fetcher.pc = "returned"
    /\ fetcher' = [fetcher EXCEPT !.pc = "done"]
    /\ ctx' = "cancelled"
    /\ UNCHANGED <<mainPc, lis, fill, cons, recState, tickFailed>>
    /\ UNCHANGED <<loggerVars, setupVars, trackVars, reconcilerVars, decideVars, recorderVars, conn, reader, listener>>
    /\ UNCHANGED <<tradeCh, enqueued, recorded, frames, consumer, writeErrs>>
    /\ UNCHANGED <<rawSnapshotCh, snapshotDiffCh, snapshotRecCh, fanout, pending, fetched,
                   rawOrder, diffQueued, recQueued>>

\* main: <-sigChan; logger.Infof(...); cancel().
Signal ==
    /\ mainPc = "sigChan"
    /\ mainPc' = "Sleep"
    /\ ctx' = "cancelled"
    /\ UNCHANGED <<lis, fill, cons, recState, tickFailed>>
    /\ UNCHANGED <<loggerVars, setupVars, trackVars, reconcilerVars, decideVars, recorderVars, conn, reader, listener>>
    /\ UNCHANGED <<tradeCh, enqueued, recorded, frames, consumer, writeErrs, fanoutVars>>

\* main: time.Sleep(10 * time.Second) is over; os.Exit(0).
Exit ==
    /\ mainPc = "Sleep"
    /\ mainPc' = "exited"
    /\ UNCHANGED <<lis, fill, cons, recState, tickFailed>>
    /\ UNCHANGED <<loggerVars, setupVars, trackVars, reconcilerVars, decideVars, recorderVars, streamVars, fanoutVars>>

----------------------------------------------------------------------------
\* main's for loop over the instruments: for each symbol the channels and the
\* fan-out goroutine, the five recorders, then the tasks.

NumSymbols == 3

\* Positions in the instruments slice.
Symbols == 1..NumSymbols

\* The recorders in the order main opens them.
RecorderOrder == <<"trade", "aggTrade", "orderBookDiff", "bestPrice", "snapshot">>

\* What main starts for a symbol once its recorders are open: the wrapper
\* goroutines of the four listeners and of the fetcher, the four Subscribe*
\* consumers and the reconciler.
SymbolTasks == {"ListenTrade", "ListenAggTrade", "ListenOrderBookDiff", "ListenBestPrice",
                "fetcher",
                "SubscribeTrades", "SubscribeAggTrades", "SubscribeBestPrice",
                "SubscribeSnapshots", "SubscribeOrderBookDiff"}

SetupStart ==
    /\ loop = [i |-> 1, step |-> "channels", k |-> 0]
    /\ started = [s \in Symbols |-> {}]
    /\ opened = [s \in Symbols |-> {}]
    /\ requested = [s \in Symbols |-> FALSE]

\* The loop moves to the next instrument, or to <-sigChan after the last.
NextInstrument ==
    IF loop.i < NumSymbols THEN [i |-> loop.i + 1, step |-> "channels", k |-> 0]
    ELSE [i |-> loop.i + 1, step |-> "sigChan", k |-> 0]

\* The channels are made and the fan-out goroutine is started.
MakeChannels ==
    /\ loop.step = "channels"
    /\ started' = [started EXCEPT ![loop.i] = @ \cup {"fan-out"}]
    /\ loop' = [loop EXCEPT !.step = "NewRecorder", !.k = 1]
    /\ UNCHANGED <<opened, requested>>
    /\ UNCHANGED <<loggerVars, trackVars, reconcilerVars, decideVars, recorderVars, streamVars, fanoutVars,
                   taskVars>>

\* Faulty variant (checked against C26): a failed NewRecorder is logged and the
\* iteration goes on.
OpenRecorder_NoSkip(ok) ==
    /\ loop.step = "NewRecorder"
    /\ opened' = IF ok THEN [opened EXCEPT ![loop.i] = @ \cup {RecorderOrder[loop.k]}]
                 ELSE opened
    /\ loop' = IF loop.k < Len(RecorderOrder) THEN [loop EXCEPT !.k = @ + 1]
               ELSE [loop EXCEPT !.step = "go", !.k = 0]
    /\ UNCHANGED <<started, requested>>
    /\ UNCHANGED <<loggerVars, trackVars, reconcilerVars, decideVars, recorderVars, streamVars, fanoutVars,
                   taskVars>>

\* One of the five NewRecorder calls: on an error, logger.Errorf and
\* continue; otherwise on to the next call, or to the tasks after the fifth.
OpenRecorder(ok) ==
    /\ loop.step = "NewRecorder"
    /\ opened' = IF ok THEN [opened EXCEPT ![loop.i] = @ \cup {RecorderOrder[loop.k]}]
                 ELSE opened
    /\ loop' = IF ~ok THEN NextInstrument
               ELSE IF loop.k < Len(RecorderOrder) THEN [loop EXCEPT !.k = @ + 1]
               ELSE [loop EXCEPT !.step = "go", !.k = 0]
    /\ UNCHANGED <<started, requested>>
    /\ UNCHANGED <<loggerVars, trackVars, reconcilerVars, decideVars, recorderVars, streamVars, fanoutVars,
                   taskVars>>

\* The go statements of the iteration and the startup snapshotRequest().
StartTasks ==
    /\ loop.step = "go"
    /\ started' = [started EXCEPT ![loop.i] = @ \cup SymbolTasks]
    /\ requested' = [requested EXCEPT ![loop.i] = TRUE]
    /\ loop' = NextInstrument
    /\ UNCHANGED opened
    /\ UNCHANGED <<loggerVars, trackVars, reconcilerVars, decideVars, recorderVars, streamVars, fanoutVars,
                   taskVars>>

----------------------------------------------------------------------------
\* Logger: tasks calling Log concurrently on one Logger whose writer is a
\* plain buffer.  The writer takes an entry in two pieces (the text, then the
\* newline): a Write on it is not one step for the other tasks.

Goroutines == 2
Messages == 2

LogTasks == 1..Goroutines

\* The piece of task g's j-th entry: 1 is "[ts] LEVEL: message", 2 is "\n".
Piece(g, j, part) == [g |-> g, j |-> j, part |-> part]

TrackStart ==
    /\ reqs = 0
    /\ streamU = -1
    /\ sent = <<>>
    /\ request = [pc |-> "fetch", snapshot |-> NoSnapshot, lastUpdateId |-> 0]

LoggerStart ==
    /\ mu = 0
    /\ w = <<>>
    /\ logPc = [g \in LogTasks |-> "idle"]
    /\ logged = [g \in LogTasks |-> 0]

\* Log: timestamp := time.Now().UTC(); entry := FormatLog(...), up to l.mu.Lock().
LogFormat(g) ==
    /\ logPc[g] = "idle"
    /\ logged[g] < Messages
    /\ logPc' = [logPc EXCEPT ![g] = "Lock"]
    /\ UNCHANGED <<mu, w, logged>>
    /\ UNCHANGED <<trackVars, reconcilerVars, decideVars, recorderVars, streamVars, fanoutVars, taskVars,
                   setupVars>>

\* Faulty variant (checked against C27): the write is entered without the mutex.
LogLock_NoMutex(g) ==
    /\ logPc[g] = "Lock"
    /\ mu' = g
    /\ logPc' = [logPc EXCEPT ![g] = "Write"]
    /\ UNCHANGED <<w, logged>>
    /\ UNCHANGED <<trackVars, reconcilerVars, decideVars, recorderVars, streamVars, fanoutVars, taskVars,
                   setupVars>>

\* l.mu.Lock(): proceeds when no task holds the mutex.
LogLock(g) ==
    /\ logPc[g] = "Lock"
    /\ mu = 0
    /\ mu' = g
    /\ logPc' = [logPc EXCEPT ![g] = "Write"]
    /\ UNCHANGED <<w, logged>>
    /\ UNCHANGED <<trackVars, reconcilerVars, decideVars, recorderVars, streamVars, fanoutVars, taskVars,
                   setupVars>>

\* l.w.Write([]byte(entry + "\n")): the writer takes the text, then the newline.
LogWrite(g) ==
    /\ logPc[g] \in {"Write", "newline"}
    /\ w' = Append(w, Piece(g, logged[g] + 1, IF logPc[g] = "Write" THEN 1 ELSE 2))
    /\ logPc' = [logPc EXCEPT ![g] = IF logPc[g] = "Write" THEN "newline" ELSE "Unlock"]
    /\ UNCHANGED <<mu, logged>>
    /\ UNCHANGED <<trackVars, reconcilerVars, decideVars, recorderVars, streamVars, fanoutVars, taskVars,
                   setupVars>>

\* defer l.mu.Unlock(); return err.
LogUnlock(g) ==
    /\ logPc[g] = "Unlock"
    /\ mu' = 0
    /\ logged' = [logged EXCEPT ![g] = @ + 1]
    /\ logPc' = [logPc EXCEPT ![g] = "idle"]
    /\ UNCHANGED w
    /\ UNCHANGED <<trackVars, reconcilerVars, decideVars, recorderVars, streamVars, fanoutVars, taskVars,
                   setupVars>>

----------------------------------------------------------------------------
\* SpecDecide: one call of ProcessOrderBookDiffMessage on each argument triple.

NoRet == <<>>

\* The reconciler before its first iteration.
NoStep == [op |-> "start", U |-> 0, u |-> 0, snap |-> 0, s |-> 0, p |-> 0,
           calls |-> 0, wrote |-> FALSE, err |-> FALSE]

ReconcilerStart ==
    /\ lastSnapshotId = 0
    /\ lastProcessedId = 0
    /\ pc = "running"
    /\ last = NoStep
    /\ anchor = -1
    /\ fwd = <<>>

DecideIdle ==
    /\ call = [diff |-> [U |-> 0, u |-> 0], lastSnapshotId |-> 0, lastProcessedId |-> 0]
    /\ ret = NoRet

InitDecide ==
    /\ call \in [diff : DecideDiffs, lastSnapshotId : DecideIds, lastProcessedId : DecideIds]
    /\ ret = NoRet
    /\ ReconcilerStart
    /\ RecorderStart
    /\ StreamStart
    /\ FanOutStart
    /\ TasksStart /\ SetupStart /\ LoggerStart /\ TrackStart

Decide ==
    /\ ret = NoRet
    /\ ret' = ProcessOrderBookDiffMessage(call.diff, call.lastSnapshotId, call.lastProcessedId)
    /\ UNCHANGED <<call, trackVars, reconcilerVars, recorderVars, pipelineVars>>

NextDecide == Decide

SpecDecide == InitDecide /\ [][NextDecide]_vars

----------------------------------------------------------------------------
\* SubscribeOrderBookDiff: the for/select loop over snapshotCh and diffCh.
\* Each action is one iteration: the receive of one select case and its body.

\* The iteration's trace: the log line of the branch taken (op), the message
\* received, lastSnapshotId/lastProcessedId as the iteration found them (s, p),
\* how often it called snapshotRequest, whether it passed the diff to
\* diffRecorder.Write and whether that Write returned an error.
Step(op, diff, snap, calls, wrote, err) ==
    [op |-> op, U |-> diff.U, u |-> diff.u, snap |-> snap,
     s |-> lastSnapshotId, p |-> lastProcessedId,
     calls |-> calls, wrote |-> wrote, err |-> err]

NoDiff == [U |-> 0, u |-> 0]

\* The last two elements of q with d appended.
Window(q, d) == IF Len(q) < 2 THEN Append(q, d) ELSE <<q[2], d>>

\* Faulty variant (checked against C9): the snapshot moves the anchor but keeps lastProcessedId.
RecvSnapshot_KeepProcessed(snapshot) ==
    /\ pc = "running"
    /\ lastSnapshotId' = snapshot
    /\ lastProcessedId' = lastProcessedId
    /\ last' = Step("Received new snapshot", NoDiff, snapshot, 0, FALSE, FALSE)
    /\ anchor' = snapshot
    /\ fwd' = <<>>
    /\ UNCHANGED <<pc, decideVars, recorderVars, pipelineVars>>

\* The body of case snapshot, ok := <-snapshotCh with ok: snapshot is its
\* LastUpdateID.
OnSnapshot(snapshot) ==
    /\ pc = "running"
    /\ lastSnapshotId' = snapshot
    /\ lastProcessedId' = snapshot
    /\ last' = Step("Received new snapshot", NoDiff, snapshot, 0, FALSE, FALSE)
    /\ anchor' = snapshot
    /\ fwd' = <<>>
    /\ UNCHANGED pc

\* case snapshot, ok := <-snapshotCh with ok, the channel left to its sender.
RecvSnapshot(snapshot) ==
    /\ OnSnapshot(snapshot)
    /\ UNCHANGED <<decideVars, recorderVars, pipelineVars>>

\* case snapshot, ok := <-snapshotCh with !ok.
SnapshotChClosed ==
    /\ pc = "running"
    /\ pc' = "returned"
    /\ last' = Step("snapshot channel closed", NoDiff, 0, 0, FALSE, FALSE)
    /\ UNCHANGED <<lastSnapshotId, lastProcessedId, anchor, fwd, decideVars, recorderVars, pipelineVars>>

\* case diff, ok := <-diffCh with !ok.
DiffChClosed ==
    /\ pc = "running"
    /\ pc' = "returned"
    /\ last' = Step("order book diff channel closed", NoDiff, 0, 0, FALSE, FALSE)
    /\ UNCHANGED <<lastSnapshotId, lastProcessedId, anchor, fwd, decideVars, recorderVars, pipelineVars>>

\* Faulty variant (checked against C5): the gap branch resets lastSnapshotId only.
DiffGap_NoReset(diff) ==
    /\ lastSnapshotId' = 0
    /\ lastProcessedId' = lastProcessedId
    /\ last' = Step("Sequence gap detected", diff, 0, 1, FALSE, FALSE)
    /\ UNCHANGED <<anchor, fwd>>

\* Faulty variant (checked against C6): the gap branch resets the state without calling snapshotRequest.
DiffGap_NoRequest(diff) ==
    /\ lastSnapshotId' = 0
    /\ lastProcessedId' = 0
    /\ last' = Step("Sequence gap detected", diff, 0, 0, FALSE, FALSE)
    /\ UNCHANGED <<anchor, fwd>>

\* The three outcomes of the diff case once lastSnapshotId # 0.
DiffGap(diff) ==
    /\ lastSnapshotId' = 0
    /\ lastProcessedId' = 0
    /\ last' = Step("Sequence gap detected", diff, 0, 1, FALSE, FALSE)
    /\ UNCHANGED <<anchor, fwd>>

\* Faulty variant (checked against C37): a failed diffRecorder.Write keeps lastProcessedId.
DiffRecord_KeepOnError(diff, newProcessedId, writeErr) ==
    /\ lastProcessedId' = IF writeErr THEN lastProcessedId ELSE newProcessedId
    /\ last' = Step("recorded", diff, 0, 0, TRUE, writeErr)
    /\ fwd' = Window(fwd, diff)
    /\ UNCHANGED <<lastSnapshotId, anchor>>

\* Faulty variant (checked against C35): diffRecorder.Write is given the range
\* from the anchor to the diff's FinalUpdateID instead of the diff.
DiffRecord_WriteSinceAnchor(diff, newProcessedId, writeErr) ==
    /\ lastProcessedId' = newProcessedId
    /\ last' = Step("recorded", [U |-> lastSnapshotId, u |-> diff.u], 0, 0, TRUE, writeErr)
    /\ fwd' = Window(fwd, diff)
    /\ UNCHANGED <<lastSnapshotId, anchor>>

DiffRecord(diff, newProcessedId, writeErr) ==
    /\ lastProcessedId' = newProcessedId
    /\ last' = Step("recorded", diff, 0, 0, TRUE, writeErr)
    /\ fwd' = Window(fwd, diff)
    /\ UNCHANGED <<lastSnapshotId, anchor>>

DiffDiscard(diff) ==
    /\ last' = Step("Discarded outdated diff", diff, 0, 0, FALSE, FALSE)
    /\ UNCHANGED <<lastSnapshotId, lastProcessedId, anchor, fwd>>

DiffNoSnapshot(diff) ==
    /\ last' = Step("No snapshot received yet", diff, 0, 0, FALSE, FALSE)
    /\ UNCHANGED <<lastSnapshotId, lastProcessedId, anchor, fwd>>

\* Faulty variant (checked against C7): the diff case without the lastSnapshotId == 0 test.
RecvDiff_NoAnchorCheck(diff, writeErr) ==
    /\ pc = "running"
    /\ LET r == ProcessOrderBookDiffMessage(diff, lastSnapshotId, lastProcessedId)
           recordMsg == r[1]
           newProcessedId == r[2]
           gapDetected == r[3]
       IN  IF gapDetected THEN DiffGap(diff)
           ELSE IF recordMsg THEN DiffRecord(diff, newProcessedId, writeErr)
           ELSE DiffDiscard(diff)
    /\ UNCHANGED <<pc, decideVars, recorderVars, pipelineVars>>

\* case diff, ok := <-diffCh with ok; writeErr is whether diffRecorder.Write,
\* if it is called, returns an error.
RecvDiff(diff, writeErr) ==
    /\ pc = "running"
    /\ IF lastSnapshotId = 0
       THEN DiffNoSnapshot(diff)
       ELSE LET r == ProcessOrderBookDiffMessage(diff, lastSnapshotId, lastProcessedId)
                recordMsg == r[1]
                newProcessedId == r[2]
                gapDetected == r[3]
            IN  IF gapDetected THEN DiffGap(diff)
                ELSE IF recordMsg THEN DiffRecord(diff, newProcessedId, writeErr)
                ELSE DiffDiscard(diff)
    /\ UNCHANGED <<pc, decideVars, recorderVars, pipelineVars>>

Init ==
    /\ ReconcilerStart /\ DecideIdle /\ RecorderStart /\ StreamStart /\ FanOutStart
    /\ TasksStart /\ SetupStart /\ LoggerStart /\ TrackStart

Next ==
    \/ \E snapshot \in Ids : RecvSnapshot(snapshot) /\ UNCHANGED trackVars
    \/ \E diff \in Diffs, writeErr \in BOOLEAN : RecvDiff(diff, writeErr) /\ UNCHANGED trackVars
    \/ SnapshotChClosed /\ UNCHANGED trackVars
    \/ DiffChClosed /\ UNCHANGED trackVars

Spec == Init /\ [][Next]_vars

\* The recorder on its own: one owner opening, writing and closing it.
InitRecorder ==
    /\ ReconcilerStart /\ DecideIdle /\ RecorderStart /\ StreamStart /\ FanOutStart
    /\ TasksStart /\ SetupStart /\ LoggerStart /\ TrackStart

NextRecorder ==
    \/ \E i \in Instruments, d \in DataTypes, b \in 1..MaxBatch, fault \in OpenFaults :
            NewRecorder(i, d, b, fault)
    \/ \E fault \in Faults : Write(written + 1, fault)
    \/ \E fault \in Faults \ OpenFaults : Close(fault)
    \/ Close(NoFault)
    \/ Tick
    \/ \E filePath \in Paths : CreateFile(filePath)

SpecRecorder == InitRecorder /\ [][NextRecorder]_vars

InitStream ==
    /\ ReconcilerStart /\ DecideIdle /\ RecorderStart /\ StreamStart /\ FanOutStart
    /\ TasksStart /\ SetupStart /\ LoggerStart /\ TrackStart

ListenerStep ==
    \/ \E ok \in BOOLEAN : Dial(ok)
    \/ RecvFrame
    \/ RecvError
    \/ CtxDone
    \/ HandlerSend

NextStream ==
    \/ ListenerStep
    \/ \E kind \in FrameKinds : ReadMessage(kind)
    \/ ReadMessageError
    \/ Cancel
    \/ StartSubscribe
    \/ \E writeErr \in BOOLEAN : SubscribeTrades(writeErr)

SpecStream == InitStream /\ [][NextStream]_vars

\* Scheduling: a goroutine that can take a step takes one; a select that is
\* evaluated again and again with ctx.Done() ready takes that case at some
\* point (the choice among ready cases is uniformly random).  The transport
\* and cancel() owe nothing.
SpecStreamFair ==
    /\ SpecStream
    /\ WF_vars(ListenerStep)
    /\ SF_vars(CtxDone)
    /\ WF_vars(\E writeErr \in BOOLEAN : SubscribeTrades(writeErr))

InitFanOut ==
    /\ ReconcilerStart /\ DecideIdle /\ RecorderStart /\ StreamStart /\ FanOutStart
    /\ TasksStart /\ SetupStart /\ LoggerStart /\ TrackStart

FanOutStep ==
    \/ FanOutRange
    \/ FanOutSendDiff
    \/ FanOutSendRec

NextFanOut ==
    \/ \E ok \in BOOLEAN : FetcherTick(ok) /\ UNCHANGED tickFailed
    \/ FetcherSend
    \/ FetcherDone
    \/ \E ok \in BOOLEAN : SnapshotRequest(ok)
    \/ \E snapshot \in pending : RequestSend(snapshot)
    \/ FanOutStep
    \/ ReconcilerReceive
    \/ SubscribeSnapshots
    \/ Cancel

SpecFanOut == InitFanOut /\ [][NextFanOut]_vars

\* Scheduling: the fan-out goroutine and the two consumers run whenever they
\* can; a producer that can send does.  Fetches and cancel() owe nothing.
SpecFanOutFair ==
    /\ SpecFanOut
    /\ WF_vars(FanOutStep)
    /\ WF_vars(ReconcilerReceive)
    /\ WF_vars(SubscribeSnapshots)

InitTasks ==
    /\ ReconcilerStart /\ DecideIdle /\ RecorderStart /\ StreamStart /\ FanOutStart
    /\ TasksStart /\ SetupStart /\ LoggerStart /\ TrackStart

\* What the goroutines do while the process lives.
TaskStep ==
    \/ \E l \in Listeners, ok \in BOOLEAN : ListenerDial(l, ok)
    \/ \E l \in Listeners : ListenerFrame(l)
    \/ \E l \in Listeners : ListenerSend(l)
    \/ \E l \in Listeners : ListenerReadError(l)
    \/ \E l \in Listeners : ListenerCtxDone(l)
    \/ \E l \in Listeners : ListenerFailed(l)
    \/ \E l \in Listeners : Consume(l)
    \/ \E ok \in BOOLEAN : FetcherTick(ok) /\ tickFailed' = ~ok
    \/ FetcherSend
    \/ FetcherDone
    \/ FetcherFailed

NextTasks ==
    \/ mainPc # "exited" /\ TaskStep
    \/ Signal
    \/ Exit

SpecTasks == InitTasks /\ [][NextTasks]_vars

\* Scheduling while the process lives: a goroutine that can take a step takes
\* one, and a select evaluated again and again with ctx.Done() ready takes
\* that case at some point.  The transport, the fetches and the signal owe
\* nothing.
SpecTasksFair ==
    /\ SpecTasks
    /\ \A l \in Listeners :
           /\ WF_vars(mainPc # "exited" /\ \E ok \in BOOLEAN : ListenerDial(l, ok))
           /\ WF_vars(mainPc # "exited" /\ ListenerSend(l))
           /\ SF_vars(mainPc # "exited" /\ ListenerCtxDone(l))
           /\ WF_vars(mainPc # "exited" /\ ListenerFailed(l))
           /\ WF_vars(mainPc # "exited" /\ Consume(l))
    /\ SF_vars(mainPc # "exited" /\ FetcherDone)
    /\ WF_vars(mainPc # "exited" /\ FetcherFailed)
    /\ WF_vars(Exit)

InitSetup ==
    /\ ReconcilerStart /\ DecideIdle /\ RecorderStart /\ StreamStart /\ FanOutStart
    /\ TasksStart /\ SetupStart /\ LoggerStart /\ TrackStart

NextSetup ==
    \/ MakeChannels
    \/ \E ok \in BOOLEAN : OpenRecorder(ok)
    \/ StartTasks

SpecSetup == InitSetup /\ [][NextSetup]_vars

InitLogger ==
    /\ ReconcilerStart /\ DecideIdle /\ RecorderStart /\ StreamStart /\ FanOutStart
    /\ TasksStart /\ SetupStart /\ LoggerStart /\ TrackStart

NextLogger ==
    \/ \E g \in LogTasks : LogFormat(g)
    \/ \E g \in LogTasks : LogLock(g)
    \/ \E g \in LogTasks : LogWrite(g)
    \/ \E g \in LogTasks : LogUnlock(g)

SpecLogger == InitLogger /\ [][NextLogger]_vars

\* The consumers that call recorder.Write, one per behaviour: the reconciler
\* (Next) or SubscribeTrades behind its listener (NextStream).  They share no
\* state, so a behaviour follows the one that takes its first step.
InitConsumers ==
    /\ ReconcilerStart /\ DecideIdle /\ RecorderStart /\ StreamStart /\ FanOutStart
    /\ TasksStart /\ SetupStart /\ LoggerStart /\ TrackStart

NextConsumers ==
    \/ StreamStart /\ Next
    \/ ReconcilerStart /\ NextStream

SpecConsumers == InitConsumers /\ [][NextConsumers]_vars

SpecConsumersFair ==
    /\ SpecConsumers
    /\ WF_vars(ListenerStep)
    /\ SF_vars(CtxDone)
    /\ WF_vars(\E writeErr \in BOOLEAN : SubscribeTrades(writeErr))

\* The reconciler's select between its two queues: the diff listener fills
\* diffCh, the request goroutines and the fan-out fill snapshotDiffCh, and
\* each iteration of SubscribeOrderBookDiff takes one ready case.
InitSelect ==
    /\ ReconcilerStart /\ DecideIdle /\ RecorderStart /\ StreamStart /\ FanOutStart
    /\ TasksStart /\ SetupStart /\ LoggerStart /\ TrackStart

NextSelect ==
    \/ \E ok \in BOOLEAN : ListenerDial("ListenOrderBookDiff", ok)
    \/ ListenerFrame("ListenOrderBookDiff")
    \/ ListenerSend("ListenOrderBookDiff")
    \/ \E ok \in BOOLEAN : SnapshotRequest(ok)
    \/ \E snapshot \in pending : RequestSend(snapshot)
    \/ FanOutStep
    \/ SubscribeSnapshots
    \/ ReconcilerReceive
    \/ Consume("ListenOrderBookDiff")

SpecSelect == InitSelect /\ [][NextSelect]_vars

\* select picks among its ready cases at random, none first: a case that
\* stays ready through the iterations of the loop is taken at some point.
SpecSelectFair ==
    /\ SpecSelect
    /\ WF_vars(ReconcilerReceive)
    /\ WF_vars(Consume("ListenOrderBookDiff"))

----------------------------------------------------------------------------
\* Claims about ProcessOrderBookDiffMessage (SpecDecide)

\* C1: the decision function returns (false, p, false) if u <= s; otherwise,
\* if p = s, (false, p, true) when U > s+1 and (true, u, false) when U <= s+1;
\* otherwise (p # s), (false, p, true) when U # p+1 and (true, u, false) when
\* U = p+1.
C1_DecisionTable ==
    ret # NoRet =>
        LET U == call.diff.U
            u == call.diff.u
            s == call.lastSnapshotId
            p == call.lastProcessedId
        IN  /\ u <= s => ret = <<FALSE, p, FALSE>>
            /\ (u > s /\ p = s /\ U > s + 1) => ret = <<FALSE, p, TRUE>>
            /\ (u > s /\ p = s /\ U <= s + 1) => ret = <<TRUE, u, FALSE>>
            /\ (u > s /\ p # s /\ U # p + 1) => ret = <<FALSE, p, TRUE>>
            /\ (u > s /\ p # s /\ U = p + 1) => ret = <<TRUE, u, FALSE>>

\* A call that found a gap right after the anchor (p = s, U = s + 2).
C1_Witness ==
    /\ ret # NoRet
    /\ call.lastProcessedId = call.lastSnapshotId
    /\ call.diff.U = call.lastSnapshotId + 2
    /\ call.diff.u > call.lastSnapshotId
    /\ ret[3]

----------------------------------------------------------------------------
\* Claims about SubscribeOrderBookDiff (Spec)

\* The latest iteration handled a diff.
IsDiffStep(l) ==
    l.op \in {"No snapshot received yet", "Sequence gap detected", "recorded",
              "Discarded outdated diff"}

IsSnapshotStep(l) == l.op = "Received new snapshot"

\* The gap condition of the decision contract on a diff (U, u) in state (s, p).
IsGap(U, u, s, p) == u > s /\ ((p = s /\ U > s + 1) \/ (p # s /\ U # p + 1))

\* C2: every diff forwarded to the diff recorder has u > lastSnapshotId, the
\* anchor at the moment it is forwarded.
C2_ForwardedAboveAnchor ==
    last.wrote => (last.u > last.s /\ last.u > lastSnapshotId)

\* A diff forwarded after an earlier one was accepted on the same anchor.
C2_Witness == last.wrote /\ last.p # last.s /\ last.s > 0

\* C3: the first diff forwarded after a snapshot with lastUpdateId s has
\* U <= s+1 <= u.
C3_FirstForwarded ==
    Len(fwd) = 1 => (fwd[1].U <= anchor + 1 /\ anchor + 1 <= fwd[1].u)

\* A first forwarded diff that straddles the anchor: U < s+1 < u.
C3_Witness ==
    /\ Len(fwd) = 1
    /\ last.wrote
    /\ fwd[1].U < anchor + 1
    /\ anchor + 1 < fwd[1].u

\* C4: two diffs forwarded one after the other with no snapshot received in
\* between are contiguous: the later one's U is the earlier one's u + 1.
C4_Contiguous ==
    Len(fwd) = 2 => fwd[2].U = fwd[1].u + 1

\* Two diffs were forwarded on one anchor, the second just now.
C4_Witness == Len(fwd) = 2 /\ last.wrote /\ fwd[1].U <= fwd[1].u

\* C5: when a diff is processed for which a gap is declared, that iteration
\* calls requestSnapshot exactly once, sets lastSnapshotId and lastProcessedId
\* to 0 and does not forward the diff.
C5_GapStep ==
    (IsDiffStep(last) /\ last.s # 0 /\ IsGap(last.U, last.u, last.s, last.p)) =>
        /\ last.op = "Sequence gap detected"
        /\ last.calls = 1
        /\ lastSnapshotId = 0
        /\ lastProcessedId = 0
        /\ ~last.wrote

\* A gap after an accepted diff: the diff starts beyond lastProcessedId + 1.
C5_Witness ==
    /\ last.op = "Sequence gap detected"
    /\ last.p # last.s
    /\ last.U > last.p + 1
    /\ last.calls = 1

\* C6 as stated: every diff that is not forwarded is stale (u <= s for the
\* current anchor s) or declared a gap, and then requestSnapshot is called
\* exactly once and the state resets to 0.
C6_RejectedStaleOrGap ==
    (IsDiffStep(last) /\ ~last.wrote) =>
        \/ last.u <= last.s
        \/ /\ last.op = "Sequence gap detected"
           /\ last.calls = 1
           /\ lastSnapshotId = 0
           /\ lastProcessedId = 0

\* C6 amended: every diff that is not forwarded either arrives while the
\* reconciler has no anchor (lastSnapshotId = 0; requestSnapshot is not called
\* and the state stays 0), or is stale (u <= s; no call, state unchanged), or
\* is declared a gap, and then requestSnapshot is called exactly once and the
\* state resets to 0.
C6_RejectedNoAnchorStaleOrGap ==
    (IsDiffStep(last) /\ ~last.wrote) =>
        \/ /\ last.s = 0
           /\ last.calls = 0
           /\ lastSnapshotId = 0
           /\ lastProcessedId = 0
        \/ /\ last.s # 0
           /\ last.u <= last.s
           /\ last.calls = 0
           /\ lastSnapshotId = last.s
           /\ lastProcessedId = last.p
        \/ /\ last.s # 0
           /\ IsGap(last.U, last.u, last.s, last.p)
           /\ last.op = "Sequence gap detected"
           /\ last.calls = 1
           /\ lastSnapshotId = 0
           /\ lastProcessedId = 0

\* Before the first snapshot a diff with u > 0 is dropped: it is neither
\* stale nor a gap.
C6_Witness ==
    /\ last.op = "No snapshot received yet"
    /\ last.u > last.s
    /\ anchor = -1

\* C7 as stated: while the state is 0 every arriving diff is dropped (not
\* forwarded, state stays 0, no snapshot request); the state leaves 0 only by
\* a snapshot; and after a snapshot received in state 0 the next diff that
\* covers lastUpdateId + 1 is forwarded.
C7_DropUntilAnySnapshot ==
    [][ /\ (lastSnapshotId = 0 /\ IsDiffStep(last')) =>
              (~last'.wrote /\ last'.calls = 0
                  /\ lastSnapshotId' = 0 /\ lastProcessedId' = 0)
        /\ (lastSnapshotId = 0 /\ lastSnapshotId' # 0) => IsSnapshotStep(last')
        /\ (lastSnapshotId = 0 /\ IsSnapshotStep(last')) =>
              (lastSnapshotId' = last'.snap /\ lastProcessedId' = last'.snap)
        /\ (IsSnapshotStep(last) /\ last.s = 0 /\ IsDiffStep(last')
               /\ last'.U <= last.snap + 1 /\ last.snap + 1 <= last'.u) =>
              last'.wrote
      ]_vars

\* C7 amended: as C7, for a snapshot whose lastUpdateId is not 0: a snapshot
\* with lastUpdateId 0 leaves the state at 0 and diffs stay dropped.
C7_DropUntilNonZeroSnapshot ==
    [][ /\ (lastSnapshotId = 0 /\ IsDiffStep(last')) =>
              (~last'.wrote /\ last'.calls = 0
                  /\ lastSnapshotId' = 0 /\ lastProcessedId' = 0)
        /\ (lastSnapshotId = 0 /\ lastSnapshotId' # 0) => IsSnapshotStep(last')
        /\ (lastSnapshotId = 0 /\ IsSnapshotStep(last')) =>
              (lastSnapshotId' = last'.snap /\ lastProcessedId' = last'.snap)
        /\ (IsSnapshotStep(last) /\ last.s = 0 /\ last.snap # 0 /\ IsDiffStep(last')
               /\ last'.U <= last.snap + 1 /\ last.snap + 1 <= last'.u) =>
              last'.wrote
      ]_vars

\* After a gap reset the state to 0, a diff that continues the earlier anchor
\* arrives and is dropped.
C7_Witness ==
    /\ last.op = "No snapshot received yet"
    /\ anchor > 0
    /\ last.U = anchor + 1
    /\ last.u >= last.U

\* C8: a stale diff (u <= s) processed while anchored at s is not forwarded,
\* requestSnapshot is not called, and lastSnapshotId and lastProcessedId are
\* left as they were.
C8_StaleFrame ==
    (IsDiffStep(last) /\ last.s # 0 /\ last.u <= last.s) =>
        /\ ~last.wrote
        /\ last.calls = 0
        /\ lastSnapshotId = last.s
        /\ lastProcessedId = last.p

\* A stale diff arriving after diffs were accepted on the anchor.
C8_Witness ==
    /\ last.op = "Discarded outdated diff"
    /\ last.u <= last.s
    /\ last.p > last.s

\* C9: a snapshot received in any state sets lastSnapshotId and lastProcessedId
\* to its lastUpdateId; receiving the same snapshot again right after leaves
\* the state as it is.
C9_SnapshotReanchors ==
    [][ IsSnapshotStep(last') =>
          /\ lastSnapshotId' = last'.snap
          /\ lastProcessedId' = last'.snap
          /\ (IsSnapshotStep(last) /\ last.snap = last'.snap) =>
                (lastSnapshotId' = lastSnapshotId /\ lastProcessedId' = lastProcessedId)
      ]_vars

\* A snapshot received after diffs were accepted on an earlier anchor.
C9_Witness ==
    /\ IsSnapshotStep(last)
    /\ last.s > 0
    /\ last.p > last.s
    /\ last.snap # last.p
    /\ last.snap # last.s

----------------------------------------------------------------------------
\* Claims about the Recorder (SpecRecorder)

\* C10: NewRecorder, when the file for (symbol, dataType, current UTC date)
\* already exists, fails with a "file already exists" error, returns no
\* recorder, and neither creates nor modifies any file.
C10_ExistingFileRefused ==
    [][ (res'.op = "NewRecorder" /\ fs[res'.path].exists) =>
            /\ res'.path = BuildFileName(res'.path[3], res'.path[1], now)
            /\ res'.err = AlreadyExists
            /\ rec' = Nil
            /\ fs' = fs
      ]_vars

\* NewRecorder has just refused to open over an earlier run's file.
C10_Witness ==
    /\ res.op = "NewRecorder"
    /\ res.err = AlreadyExists
    /\ fs[res.path] = OldFile
    /\ rec = Nil

----------------------------------------------------------------------------
\* C11: for a recorder with batch size B >= 1, after N Write calls that all
\* returned nil, with no day change and no encoder error (and no other call
\* on the recorder), exactly floor(N/B)*B records have been handed to the
\* encoder and the batch buffer holds N mod B records.
C11_BatchArithmetic ==
    (rec # Nil /\ plain) =>
        LET r == rec[1]
            N == written
            B == r.batchSize
        IN  /\ B >= 1
            /\ Len(fs[r.pw].rows) = (N \div B) * B
            /\ Len(r.batchBuffer) = N % B
            /\ fs[r.pw].rows \o r.batchBuffer = [k \in 1..N |-> k]

\* Three writes at batch size 2: one batch flushed, one record buffered.
C11_Witness ==
    /\ rec # Nil /\ plain
    /\ written = 3 /\ rec[1].batchSize = 2
    /\ Len(fs[rec[1].pw].rows) = 2 /\ Len(rec[1].batchBuffer) = 1

\* The records of sequence s, as a set.
Range(s) == {s[i] : i \in 1..Len(s)}

\* C12: a rotation or a Close that returns no error discards no buffered
\* record: every record that was in the batch buffer is afterwards among the
\* records handed to the encoder of the file that was open when Write buffered
\* it, and none of them is left in the buffer (after Close the buffer is
\* empty; after the rotation inside Write it holds at most the new record).
C12_FlushedNotDiscarded ==
    [][ (rec # Nil /\ res'.err = "" /\
            (res'.op = "Close" \/
             (res'.op = "Write" /\ rec'[1].currentDate # rec[1].currentDate))) =>
           /\ \A k \in Range(rec[1].batchBuffer) :
                  /\ home[k] = rec[1].pw
                  /\ k \in Range(fs'[home[k]].rows)
                  /\ k \notin Range(rec'[1].batchBuffer)
           /\ res'.op = "Close" => rec'[1].batchBuffer = <<>>
           /\ res'.op = "Write" => Range(rec'[1].batchBuffer) \subseteq {written'}
      ]_vars

\* Batch size 2: record 1 was flushed to the first day's file by the rotation
\* that record 2 triggered, record 2 to the second day's file by Close.
C12_Witness ==
    /\ rec # Nil /\ rec[1].batchSize = 2
    /\ res.op = "Close" /\ res.err = ""
    /\ rec[1].batchBuffer = <<>>
    /\ home[1] \in Paths /\ home[2] \in Paths
    /\ fs[home[1]].rows = <<1>> /\ fs[home[2]].rows = <<2>>
    /\ home[1] # home[2] /\ home[2] = rec[1].pw

\* The places where record k has been handed to an encoder: file and row.
Handed(k) ==
    {pi \in UNION {{<<path, i>> : i \in 1..Len(fs[path].rows)} : path \in Paths} :
        fs[pi[1]].rows[pi[2]] = k}

\* C13: over any sequence of Write, rotation and Close calls, also when an
\* encoder write fails partway through a flush and the flush is attempted
\* again later, each record passed to Write is handed to an encoder at most
\* once, and so to the encoder of one file only.
C13_NoDuplication ==
    \A k \in 1..MaxWrites : Cardinality(Handed(k)) <= 1

\* C14: when an encoder write fails during a flush, the caller of Write or
\* Close gets the error, and the batch buffer still holds every record it held
\* when the flush started: in Close and in the flush that opens a rotation,
\* the buffer the call found; in the flush at the end of Write, that buffer
\* (empty after a rotation) with the new record appended.
C14_FlushFailureKeepsBuffer ==
    [][ encErrs' = encErrs + 1 =>
           /\ res'.err = "encoder write"
           /\ rec'[1].batchBuffer =
                  IF res'.op = "Close" \/ home'[written'] \notin Paths
                  THEN rec[1].batchBuffer
                  ELSE IF rec'[1].currentDate # rec[1].currentDate
                       THEN <<written'>>
                       ELSE Append(rec[1].batchBuffer, written')
      ]_vars

\* Batch size 2: the flush in the second Write failed on record 2 after
\* record 1 was handed to the encoder; both are still buffered.
C14_Witness ==
    /\ rec # Nil
    /\ res.op = "Write" /\ res.err = "encoder write" /\ encErrs = 1
    /\ rec[1].batchBuffer = <<1, 2>>
    /\ fs[rec[1].pw].rows = <<1>>

\* C15: when Write is called on a UTC date other than the stored one, rotation
\* runs before the record is buffered.  If rotate returns nil: the records
\* buffered so far were handed to the old day's encoder, the old file is
\* finalized and closed and does not hold the new record, the file named for
\* the new date has been created and is open, stored date and path name it,
\* and the new record is the only one buffered (at batch size 1 the flush that
\* ends Write has already handed it to the new file's encoder).  If rotate
\* returns an error, Write returns it and the record is not buffered.
C15_RotateBeforeBuffering ==
    [][ (res'.op = "Write" /\ UTCDate(now) # rec[1].currentDate) =>
           LET r == rec[1]
               r2 == rec'[1]
               record == written'
               old == r.filePath
               new == BuildFileName(r.dataType, r.instrument, now)
           IN  IF r2.currentDate # r.currentDate
               THEN /\ fs'[old].rows = fs[old].rows \o r.batchBuffer
                    /\ fs'[old].stopped /\ fs'[old].closed
                    /\ ~fs[new].exists
                    /\ fs'[new].exists /\ ~fs'[new].stopped /\ ~fs'[new].closed
                    /\ r2.currentDate = UTCDate(now)
                    /\ r2.filePath = new /\ r2.pw = new /\ r2.localFile = new
                    /\ fs'[new].rows \o r2.batchBuffer = <<record>>
                    /\ r2.batchSize > 1 => r2.batchBuffer = <<record>>
               ELSE /\ res'.err # ""
                    /\ record \notin Range(r2.batchBuffer)
                    /\ r2.filePath = r.filePath /\ r2.pw = r.pw
                    /\ \A path \in Paths : record \notin Range(fs'[path].rows)
      ]_vars

\* Batch size 2: record 1 was buffered on the first day; the Write of record 2
\* on the second day moved it to the first day's file, now finalized and closed.
C15_Witness ==
    /\ rec # Nil /\ rec[1].batchSize = 2
    /\ res.op = "Write" /\ res.err = ""
    /\ res.path # rec[1].filePath
    /\ rec[1].currentDate = UTCDate(now)
    /\ fs[res.path].rows = <<1>> /\ fs[res.path].stopped /\ fs[res.path].closed
    /\ rec[1].batchBuffer = <<2>> /\ fs[rec[1].filePath].rows = <<>>

\* C16: a recorder never opens for writing a file whose path already exists,
\* at startup or at rotation.  No call of NewRecorder, Write or Close creates,
\* truncates, writes or takes a handle on an existing file other than the one
\* the recorder already holds; and a Write that has to rotate onto an existing
\* new-day file returns an error and stays on its old file: the "already
\* exists" error, unless the flush, WriteStop or Close that rotate performs on
\* the old file before the test failed first.
C16_ExistingFileNeverOpened ==
    [][ res'.op \in {"NewRecorder", "Write", "Close"} =>
           /\ \A path \in Paths :
                  (fs[path].exists /\ (rec = Nil \/ rec[1].localFile # path)) =>
                      /\ fs'[path] = fs[path]
                      /\ rec' = Nil \/ (rec'[1].localFile # path /\ rec'[1].pw # path)
           /\ (res'.op = "Write" /\ UTCDate(now) # rec[1].currentDate
                 /\ fs[BuildFileName(rec[1].dataType, rec[1].instrument, now)].exists) =>
                  /\ res'.err \in {AlreadyExists, "encoder write", "WriteStop", "close"}
                  /\ (encErrs' = encErrs /\ fs'[rec[1].localFile].stopped
                        /\ ~fs[rec[1].localFile].closed /\ res'.err # "close") =>
                         res'.err = AlreadyExists
                  /\ rec'[1].filePath = rec[1].filePath
                  /\ rec'[1].currentDate = rec[1].currentDate
      ]_vars

\* The second day's file was in the directory before the recorder was opened
\* on the first day; the Write on the second day closed the first day's file
\* and was refused.
C16_Witness ==
    /\ rec # Nil
    /\ res.op = "Write" /\ res.err = AlreadyExists
    /\ UTCDate(now) # rec[1].currentDate
    /\ fs[BuildFileName(rec[1].dataType, rec[1].instrument, now)] = OldFile
    /\ fs[rec[1].filePath].closed

\* C17: Close releases the underlying file on every path: whatever Close
\* returns (also the error of a failed final flush or of a failed WriteStop),
\* the recorder's file handle is closed afterwards.
C17_CloseReleasesFile ==
    [][ res'.op = "Close" => fs'[rec[1].localFile].closed ]_vars

----------------------------------------------------------------------------
\* Claims about one stream (SpecStream, SpecStreamFair)

\* The trade the handler is blocked sending, if any.
InHandler == IF listener.pc = "handler" THEN <<listener.trade>> ELSE <<>>

C20_CancelledListenerReturns ==
    (ctx = "cancelled" /\ listener.pc \in {"select", "handler"}) ~>
        (listener.pc = "returned" /\ listener.ret = "context canceled" /\ conn = "closed")

\* C21: any decode, transport or framing error ends the listener: when the
\* listener takes from readCh a read error or a frame its handler cannot
\* decode, it returns an error; and a listener that has returned processes no
\* further frame.
C21_ErrorEndsListener ==
    [][ /\ (reader.pc = "sending" /\ reader'.pc # "sending"
              /\ (reader.rr.err \/ reader.rr.kind = "bad")) =>
               (listener'.pc = "returned"
                  /\ listener'.ret \notin {"", "context canceled"})
        /\ listener.pc = "returned" =>
               (listener' = listener /\ enqueued' = enqueued)
      ]_vars

----------------------------------------------------------------------------
\* Claims about the tasks of one symbol and the supervisor

\* The listeners and the fetcher have all returned.
ProducersReturned ==
    /\ \A l \in Listeners : lis[l].pc \in {"returned", "done"}
    /\ fetcher.pc \in {"returned", "done"}

\* C22: fail-fast: when a listener or the periodic fetcher returns an error,
\* the supervisor cancels the global token (a wrapper that has dealt with the
\* error has cancelled, and every returned task's wrapper gets there), and once
\* the token is cancelled every listener and the fetcher returns, as long as
\* the process lives.
C22_FailFast ==
    /\ [](\A l \in Listeners : lis[l].pc = "done" => ctx = "cancelled")
    /\ [](fetcher.pc = "done" => ctx = "cancelled")
    /\ \A l \in Listeners : (lis[l].pc = "returned") ~> (ctx = "cancelled")
    /\ (fetcher.pc = "returned") ~> (ctx = "cancelled")
    /\ (ctx = "cancelled") ~> (ProducersReturned \/ mainPc = "exited")

\* A read error on the trade stream has cancelled the token without any
\* signal, and the diff listener and the fetcher have returned on it.
C22_Witness ==
    /\ mainPc = "sigChan"
    /\ lis["ListenTrade"] = [pc |-> "done", ret |-> "read error"]
    /\ lis["ListenOrderBookDiff"].ret = "context canceled"
    /\ fetcher.pc \in {"returned", "done"}
    /\ ctx = "cancelled"

\* C23: a failed fetch does not end the periodic fetcher: the tick enqueues
\* nothing and leaves the fetcher at its select, where the next tick fetches
\* again; the fetcher returns only with the token cancelled, from its select
\* or from the send it is blocked in.
C23_FailedFetchGoesOn ==
    [][ /\ (~tickFailed /\ tickFailed') =>
               /\ rawSnapshotCh' = rawSnapshotCh
               /\ rawOrder' = rawOrder
               /\ fetcher.pc = "select"
               /\ fetcher' = fetcher
        /\ (fetcher.pc # "returned" /\ fetcher'.pc = "returned") =>
               /\ ctx = "cancelled"
               /\ fetcher.pc \in {"select", "send"}
      ]_vars

\* The latest tick's fetch has failed, after ticks that filled the queue, and
\* the fetcher is at its select with the token live.
C23_Witness ==
    /\ tickFailed
    /\ fetcher.pc = "select"
    /\ Len(rawSnapshotCh) = SnapCap
    /\ ctx = "live"

\* C24: once the token is cancelled, every listener, the fetcher and every
\* consumer task (the four Subscribe* loops, the reconciler, the fan-out)
\* eventually returns.
C24_AllTasksReturn ==
    (ctx = "cancelled") ~>
        (ProducersReturned /\ \A c \in Consumers : cons[c] = "returned")

\* C25: after a shutdown signal the token is cancelled and, when the process
\* exits, every recorder has released its file (flushed, encoder finalized,
\* file closed).
C25_RecordersClosedBeforeExit ==
    /\ mainPc \in {"Sleep", "exited"} => ctx = "cancelled"
    /\ mainPc = "exited" => \A d \in RecorderTypes : recState[d] = "closed"

----------------------------------------------------------------------------
\* Claims about main's setup of the symbols

\* The iteration of symbol s is over.
SetUp(s) == loop.i > s

\* C26: when opening one of the five recorders fails for a symbol, the symbol
\* is skipped: none of its listeners, fetcher, consumers or reconciler is
\* started and no startup snapshot is requested for it, and the supervisor goes
\* on with the next symbol, which it sets up if its recorders open.
C26_FailedRecorderSkipsSymbol ==
    /\ [](\A s \in Symbols :
              opened[s] # RecorderTypes =>
                  (started[s] \cap SymbolTasks = {} /\ ~requested[s]))
    /\ [](\A s \in Symbols :
              (SetUp(s) /\ opened[s] = RecorderTypes) =>
                  (SymbolTasks \subseteq started[s] /\ requested[s]))
    /\ [][ (loop.step = "NewRecorder" /\ opened' = opened) =>
               (loop' = NextInstrument /\ started' = started) ]_vars

\* The first symbol was skipped at its third recorder and the second symbol
\* has been set up in full.
C26_Witness ==
    /\ opened[1] = {"trade", "aggTrade"}
    /\ started[1] \cap SymbolTasks = {}
    /\ ~requested[1]
    /\ opened[2] = RecorderTypes
    /\ SymbolTasks \subseteq started[2]
    /\ requested[2]

\* C40: a symbol skipped because one of its recorders failed to open has
\* nothing left behind: none of its recorders is open and no task started for
\* it (the snapshot fan-out included) remains.
C40_SkippedSymbolLeavesNothing ==
    \A s \in Symbols :
        (SetUp(s) /\ opened[s] # RecorderTypes) => (opened[s] = {} /\ started[s] = {})

----------------------------------------------------------------------------
\* Claims about the Logger

\* The entries of w: a text piece directly followed by its own newline.
CompleteLines ==
    {p \in 1..(Len(w) - 1) : w[p].part = 1 /\ w[p + 1] = Piece(w[p].g, w[p].j, 2)}

\* C27: with Goroutines tasks calling Log Messages times each on one Logger,
\* the writer receives whole lines only, never pieces of two entries
\* interleaved (the one line under way belongs to the holder of the mutex), one
\* line per call, Goroutines * Messages lines once every call has returned.
C27_LogLinesAtomic ==
    /\ \A p \in 1..Len(w) :
           IF w[p].part = 1
           THEN \/ p \in CompleteLines
                \/ p = Len(w) /\ mu = w[p].g /\ logPc[w[p].g] = "newline"
           ELSE p > 1 /\ (p - 1) \in CompleteLines
    /\ \A g \in LogTasks, j \in 1..Messages :
           Cardinality({p \in CompleteLines : w[p].g = g /\ w[p].j = j})
               = IF j <= logged[g] \/ (j = logged[g] + 1 /\ logPc[g] = "Unlock") THEN 1 ELSE 0
    /\ (\A g \in LogTasks : logged[g] = Messages) =>
           Cardinality(CompleteLines) = Goroutines * Messages

\* Every call has returned and the lines of two tasks alternate in the writer.
C27_Witness ==
    /\ \A g \in LogTasks : logged[g] = Messages
    /\ Len(w) = 2 * Goroutines * Messages
    /\ w[1].g # w[3].g
    /\ w[3].g # w[5].g

\* C28: a snapshot waiting in the reconciler's snapshot queue is eventually
\* received, whatever the diff queue holds: the n-th snapshot sent on
\* snapshotDiffCh is received at some point, also in the runs where diffCh is
\* never found empty.
C28_WaitingSnapshotReceived ==
    \A n \in 1..MaxSnapshots :
        (Len(diffQueued) >= n) ~> (Len(diffQueued) - Len(snapshotDiffCh) >= n)

\* A snapshot has been received while a diff was ready in diffCh.
C28_Witness ==
    /\ Len(diffQueued) >= 1
    /\ snapshotDiffCh = <<>>
    /\ fill["ListenOrderBookDiff"] = QueueCap
    /\ lis["ListenOrderBookDiff"].pc = "handler"

----------------------------------------------------------------------------
\* Claims about the consumers and recorder.Write

\* C29: an error of recorder.Write does not stop a consumer.  The reconciler
\* stays in its loop with the failed diff counted as processed, so the diffs
\* that follow it are passed to Write; SubscribeTrades (SubscribeAggTrades,
\* SubscribeBestPrice and SubscribeSnapshots are the same loop) never returns
\* and passes every later event of its channel to Write.
C29_WriteErrorGoesOn ==
    /\ [][ /\ (last' # last /\ last'.err) =>
                  /\ pc' = "running"
                  /\ last'.wrote
                  /\ lastProcessedId' = last'.u
                  /\ lastSnapshotId' = lastSnapshotId
           /\ consumer => consumer'
           /\ (writeErrs # {} /\ tradeCh # <<>> /\ tradeCh' = Tail(tradeCh)) =>
                  recorded' = Append(recorded, Head(tradeCh))
         ]_vars
    /\ \A n \in 1..MaxFrames :
           (consumer /\ writeErrs # {} /\ n \in Range(enqueued)) ~> (n \in Range(recorded))

\* The Write of the first trade failed and the second trade has been passed to
\* Write without an error.
C29_Witness ==
    /\ consumer
    /\ writeErrs = {1}
    /\ Len(recorded) >= 2
    /\ recorded[2] = 2

\* The rows of the files in the order the encoders received them: by UTC day
\* of the file (a recorder never goes back to an earlier file), then by
\* position in the file.
Before(p, i, q, j) == p[5] < q[5] \/ (p = q /\ i < j)

\* C30: the encoders receive the records in the order of the Write calls
\* (records are numbered in that order): a record received after another one
\* was not passed to Write before it, within a batch, across batches, across
\* a rotation and in Close.
C30_EncoderOrder ==
    \A p \in Paths, q \in Paths :
        \A i \in 1..Len(fs[p].rows), j \in 1..Len(fs[q].rows) :
            (Before(p, i, q, j) /\ fs[p].rows[i] \in 1..MaxWrites
                                /\ fs[q].rows[j] \in 1..MaxWrites)
                => fs[p].rows[i] <= fs[q].rows[j]

-----------------------------------------------------------------------------
\* Claims about the reconciler's state, its requests and the diffs it forwards
\* (Spec, SpecTracked, SpecContiguous)

\* C33: in every reachable state of the reconciler lastProcessedId is at least
\* lastSnapshotId, and lastSnapshotId = 0 implies lastProcessedId = 0.
C33_ProcessedAtLeastAnchor ==
    /\ lastProcessedId >= lastSnapshotId
    /\ lastSnapshotId = 0 => lastProcessedId = 0

\* A diff has been accepted beyond an anchor that is not 0.
C33_Witness ==
    /\ lastSnapshotId > 0
    /\ lastProcessedId > lastSnapshotId
    /\ last.op = "recorded"

\* The ghosts after one iteration of the reconciler's loop: requests are
\* counted from the latest snapshot receipt (the count stops at 2), and the
\* diff passed to diffRecorder.Write is remembered.
Track ==
    /\ reqs' = IF IsSnapshotStep(last') THEN 0
               ELSE IF reqs + last'.calls > 2 THEN 2 ELSE reqs + last'.calls
    /\ sent' = IF last'.wrote THEN <<[U |-> last'.U, u |-> last'.u]>> ELSE sent
    /\ UNCHANGED <<streamU, request>>

\* The reconciler with any snapshots and any diffs, its requests counted.
InitTracked ==
    /\ ReconcilerStart /\ DecideIdle /\ RecorderStart /\ StreamStart /\ FanOutStart
    /\ TasksStart /\ SetupStart /\ LoggerStart /\ TrackStart

NextTracked ==
    \/ \E snapshot \in Ids : RecvSnapshot(snapshot) /\ Track
    \/ \E diff \in Diffs, writeErr \in BOOLEAN : RecvDiff(diff, writeErr) /\ Track
    \/ SnapshotChClosed /\ Track
    \/ DiffChClosed /\ Track

SpecTracked == InitTracked /\ [][NextTracked]_vars

\* C34: between two consecutive snapshot receipts snapshotRequest is invoked at
\* most once, whatever diffs arrive: once it has been invoked the state is 0
\* (until the next snapshot receipt), where a diff is dropped without a request.
C34_OneRequestPerSnapshot ==
    /\ reqs <= 1
    /\ reqs = 1 => lastSnapshotId = 0 /\ lastProcessedId = 0

\* After a gap and its request, a further diff has arrived and has been dropped.
C34_Witness ==
    /\ reqs = 1
    /\ last.op = "No snapshot received yet"
    /\ last.u >= 1

\* The reconciler behind a contiguous diff stream: every diff has U <= u and,
\* after the first, U equal to the previous diff's u + 1; snapshots arrive at
\* any point between the diffs.
InitContiguous ==
    /\ ReconcilerStart /\ DecideIdle /\ RecorderStart /\ StreamStart /\ FanOutStart
    /\ TasksStart /\ SetupStart /\ LoggerStart /\ TrackStart

NextContiguous ==
    \/ \E snapshot \in Ids : RecvSnapshot(snapshot) /\ UNCHANGED trackVars
    \/ \E diff \in Diffs, writeErr \in BOOLEAN :
           /\ diff.U <= diff.u
           /\ streamU >= 0 => diff.U = streamU + 1
           /\ RecvDiff(diff, writeErr)
           /\ streamU' = diff.u
           /\ sent' = IF last'.wrote THEN Append(sent, [U |-> last'.U, u |-> last'.u])
                      ELSE sent
           /\ UNCHANGED <<reqs, request>>
    \/ SnapshotChClosed /\ UNCHANGED trackVars
    \/ DiffChClosed /\ UNCHANGED trackVars

SpecContiguous == InitContiguous /\ [][NextContiguous]_vars

C36_AnySnapshotReplacesBaseline ==
    [][ (/\ IsSnapshotStep(last)
         /\ last.p > last.s
         /\ IsDiffStep(last')
         /\ last'.u > last.snap
         /\ last'.U > last.snap + 1)
        => /\ last'.op = "Sequence gap detected"
           /\ last'.calls = 1
           /\ lastSnapshotId' = 0
           /\ lastProcessedId' = 0 ]_vars

\* C36: after a snapshot with lastUpdateId s' # 0 received while diffs were
\* being accepted, a diff with u > s' and U > s' + 1 is declared a gap
\* (snapshotRequest called once, state reset to 0, nothing forwarded), also
\* when its U is the previously accepted diff's u + 1.
C36_SnapshotReplacesBaseline ==
    [][ (/\ IsSnapshotStep(last)
         /\ last.snap # 0
         /\ last.p > last.s
         /\ IsDiffStep(last')
         /\ last'.u > last.snap
         /\ last'.U > last.snap + 1)
        => /\ last'.op = "Sequence gap detected"
           /\ last'.calls = 1
           /\ ~last'.wrote
           /\ lastSnapshotId' = 0
           /\ lastProcessedId' = 0 ]_vars

\* A gap has been declared against a baseline just set by a snapshot, on the
\* diff that follows the latest forwarded diff without a hole.
C36_Witness ==
    /\ last.op = "Sequence gap detected"
    /\ last.s # 0
    /\ last.p = last.s
    /\ sent # <<>>
    /\ last.U = sent[Len(sent)].u + 1

\* C37: when diffRecorder.Write returns an error for an accepted diff,
\* lastProcessedId is that diff's u, the anchor is kept and snapshotRequest is
\* not called; the diff that follows with U = u + 1 (and U <= u) is accepted
\* and no gap is declared.
C37_WriteErrorKeepsContinuity ==
    [][ /\ (last' # last /\ last'.err)
            => /\ last'.op = "recorded"
               /\ last'.calls = 0
               /\ lastProcessedId' = last'.u
               /\ lastSnapshotId' = lastSnapshotId
        /\ (/\ last.err
            /\ IsDiffStep(last')
            /\ last'.U = last.u + 1
            /\ last'.U <= last'.u)
            => /\ last'.op = "recorded"
               /\ last'.calls = 0
               /\ lastProcessedId' = last'.u ]_vars

\* The Write of an accepted diff has failed, and the diff is the last
\* processed one with room for a contiguous successor.
C37_Witness ==
    /\ last.op = "recorded"
    /\ last.err
    /\ lastProcessedId = last.u
    /\ lastProcessedId < MaxId
    /\ lastSnapshotId # 0

----------------------------------------------------------------------------
\* Claims about the reader goroutine of a listener (SpecStream)

\* C38: after the listener has returned, its reader goroutine is never blocked
\* in its send on readCh: nobody receives from readCh any more, so a reader
\* in that send stays in it for ever and never terminates.
C38_ReaderNeverStuckSending ==
    listener.pc = "returned" => reader.pc # "sending"

----------------------------------------------------------------------------
\* Claims about what a Recorder holds between its operations (SpecRecorder)

\* Recorder r holds, in directory f, an open file and an encoder that has not
\* been finalized.
HoldsOpenFile(r, f) == ~f[r.localFile].closed /\ ~f[r.pw].stopped

\* C39: between operations an opened recorder that has not been closed holds
\* an open file and a non-finalized encoder: NewRecorder returns such a
\* recorder, and a Write on such a recorder leaves it so whatever it returns
\* (also the error of a rotation), so that no later Write meets a closed file.
C39_RecorderHoldsOpenFile ==
    [][ /\ (rec = Nil /\ rec' # Nil) => HoldsOpenFile(rec'[1], fs')
        /\ (rec # Nil /\ written' # written /\ HoldsOpenFile(rec[1], fs))
               => HoldsOpenFile(rec'[1], fs') ]_vars

----------------------------------------------------------------------------
\* The startup of the first symbol, up to the first tick of its fetcher (one
\* minute after the start): main's iteration, the goroutine of the startup
\* snapshotRequest(), the fan-out, SubscribeSnapshots and the reconciler.  The
\* requests of the reconciler's gap branch are counted in the step, not
\* followed.

Followed == 1

\* The request goroutine: FetchOrderBookSnapshot returns; an error is logged
\* and the goroutine returns.  lastUpdateId is the snapshot's LastUpdateID.
StartupFetch(ok, lastUpdateId) ==
    /\ requested[Followed]
    /\ request.pc = "fetch"
    /\ IF ok
       THEN /\ fetched' = fetched + 1
            /\ request' = [pc |-> "send", snapshot |-> Snapshot(fetched + 1, "request"),
                           lastUpdateId |-> lastUpdateId]
       ELSE /\ request' = [request EXCEPT !.pc = "returned"]
            /\ UNCHANGED fetched
    /\ UNCHANGED <<rawSnapshotCh, snapshotDiffCh, snapshotRecCh, fanout, fetcher, pending,
                   rawOrder, diffQueued, recQueued>>
    /\ UNCHANGED <<reqs, streamU, sent>>
    /\ UNCHANGED <<loggerVars, setupVars, reconcilerVars, decideVars, recorderVars, streamVars, taskVars>>

\* The request goroutine's rawSnapshotCh <- *snapshot.
StartupSend ==
    /\ request.pc = "send"
    /\ Len(rawSnapshotCh) < SnapCap
    /\ rawSnapshotCh' = Append(rawSnapshotCh, request.snapshot)
    /\ rawOrder' = Append(rawOrder, request.snapshot)
    /\ request' = [request EXCEPT !.pc = "returned"]
    /\ UNCHANGED <<snapshotDiffCh, snapshotRecCh, fanout, fetcher, pending, fetched,
                   diffQueued, recQueued>>
    /\ UNCHANGED <<reqs, streamU, sent>>
    /\ UNCHANGED <<loggerVars, setupVars, reconcilerVars, decideVars, recorderVars, streamVars, taskVars>>

\* Faulty variant (checked against C31): the reconciler takes the snapshot
\* from its channel and leaves its state alone.
StartupReceive_NoAnchor ==
    /\ "SubscribeOrderBookDiff" \in started[Followed]
    /\ snapshotDiffCh # <<>>
    /\ snapshotDiffCh' = Tail(snapshotDiffCh)
    /\ last' = Step("Received new snapshot", NoDiff, request.lastUpdateId, 0, FALSE, FALSE)
    /\ UNCHANGED <<lastSnapshotId, lastProcessedId, pc, anchor, fwd>>
    /\ UNCHANGED <<rawSnapshotCh, snapshotRecCh, fanout, fetcher, pending, fetched,
                   rawOrder, diffQueued, recQueued>>
    /\ UNCHANGED <<loggerVars, setupVars, trackVars, decideVars, recorderVars, streamVars, taskVars>>

\* The reconciler's case snapshot, ok := <-snapshotCh on the snapshot the
\* fan-out has passed on (the only one before the first tick).
StartupReceive ==
    /\ "SubscribeOrderBookDiff" \in started[Followed]
    /\ snapshotDiffCh # <<>>
    /\ snapshotDiffCh' = Tail(snapshotDiffCh)
    /\ OnSnapshot(request.lastUpdateId)
    /\ UNCHANGED <<rawSnapshotCh, snapshotRecCh, fanout, fetcher, pending, fetched,
                   rawOrder, diffQueued, recQueued>>
    /\ UNCHANGED <<loggerVars, setupVars, trackVars, decideVars, recorderVars, streamVars, taskVars>>

\* The reconciler's diff case, once the reconciler has been started.
StartupDiff(diff, writeErr) ==
    /\ "SubscribeOrderBookDiff" \in started[Followed]
    /\ RecvDiff(diff, writeErr)
    /\ UNCHANGED trackVars

InitStartup ==
    /\ ReconcilerStart /\ DecideIdle /\ RecorderStart /\ StreamStart /\ FanOutStart
    /\ TasksStart /\ SetupStart /\ LoggerStart /\ TrackStart

NextStartup ==
    \/ loop.i = Followed /\ MakeChannels
    \/ \E ok \in BOOLEAN : loop.i = Followed /\ OpenRecorder(ok)
    \/ loop.i = Followed /\ StartTasks
    \/ \E ok \in BOOLEAN, lastUpdateId \in Ids : StartupFetch(ok, lastUpdateId)
    \/ StartupSend
    \/ FanOutStep
    \/ SubscribeSnapshots
    \/ StartupReceive
    \/ \E diff \in Diffs, writeErr \in BOOLEAN : StartupDiff(diff, writeErr)

SpecStartup == InitStartup /\ [][NextStartup]_vars

\* Scheduling: a goroutine that can send or receive does; the reconciler's
\* select takes its snapshot case at some point while a snapshot is ready.
\* The fetch and the diffs owe nothing.
SpecStartupFair ==
    /\ SpecStartup
    /\ WF_vars(StartupSend)
    /\ WF_vars(FanOutStep)
    /\ WF_vars(SubscribeSnapshots)
    /\ WF_vars(StartupReceive)

\* What C31 says of the request: a symbol is requested for exactly when its
\* recorders have opened and its tasks are started, the request is made in
\* the step that starts the tasks and before any snapshot was fetched, and its
\* goroutine fetches once.
StartupRequestedOnce ==
    /\ [](/\ (SetUp(Followed) /\ opened[Followed] = RecorderTypes) => requested[Followed]
          /\ requested[Followed] => opened[Followed] = RecorderTypes
          /\ fetched <= 1)
    /\ [][ /\ (~requested[Followed] /\ requested'[Followed])
               => /\ SymbolTasks \subseteq started'[Followed]
                  /\ request.pc = "fetch"
                  /\ fetched = 0
           /\ request.pc # "fetch" => request'.pc # "fetch" ]_vars

\* The reconciler has just received the startup snapshot.
StartupSnapshotReceived ==
    /\ request.pc = "returned"
    /\ IsSnapshotStep(last)
    /\ last.snap = request.lastUpdateId
    /\ lastSnapshotId = request.lastUpdateId
    /\ lastProcessedId = request.lastUpdateId

\* C31 as stated: one startup request per symbol whose recorders opened, made
\* at once; when its fetch succeeds the snapshot reaches the reconciler
\* through rawSnapshotCh and the fan-out, and the reconciler is then anchored
\* (lastSnapshotId # 0), whatever the snapshot's LastUpdateID.
C31_StartupSnapshotAnchors ==
    /\ StartupRequestedOnce
    /\ [][ (snapshotDiffCh # <<>> /\ snapshotDiffCh' = Tail(snapshotDiffCh))
               => lastSnapshotId' # 0 ]_vars
    /\ (request.pc = "send") ~> StartupSnapshotReceived

\* C31: one startup request per symbol whose recorders opened, made at once;
\* when its fetch succeeds the snapshot reaches the reconciler through
\* rawSnapshotCh and the fan-out, without any tick of the fetcher, and the
\* reconciler then has the snapshot's LastUpdateID as its state: it is
\* anchored if that ID is not 0.
C31_StartupSnapshotReceived ==
    /\ StartupRequestedOnce
    /\ [][ (snapshotDiffCh # <<>> /\ snapshotDiffCh' = Tail(snapshotDiffCh))
               => /\ lastSnapshotId' = request.lastUpdateId
                  /\ lastProcessedId' = request.lastUpdateId
                  /\ request.lastUpdateId # 0 => lastSnapshotId' # 0 ]_vars
    /\ (request.pc = "send") ~> StartupSnapshotReceived

\* The startup snapshot has anchored the reconciler and a diff has been
\* accepted, with no tick of the fetcher.
C31_Witness ==
    /\ requested[Followed]
    /\ request.pc = "returned"
    /\ request.snapshot \in Range(diffQueued)
    /\ anchor = request.lastUpdateId
    /\ lastSnapshotId = anchor
    /\ last.op = "recorded"
    /\ fetcher.pc = "select"
    /\ fetched = 1

----------------------------------------------------------------------------
\* The consumers of the first symbol and the recorders they write: main's
\* loop, and each started consumer either in its receive or inside
\* recorder.Write (with the flush or rotation Write may run).

\* The recorder each go statement hands to its consumer.
RecorderOf_SharedRecorder(c) ==
    CASE c = "SubscribeTrades" -> "trade"
      [] c = "SubscribeAggTrades" -> "aggTrade"
      [] c = "SubscribeBestPrice" -> "bestPrice"
      [] c = "SubscribeSnapshots" -> "orderBookDiff"
      [] c = "SubscribeOrderBookDiff" -> "orderBookDiff"

RecorderOf(c) ==
    CASE c = "SubscribeTrades" -> "trade"
      [] c = "SubscribeAggTrades" -> "aggTrade"
      [] c = "SubscribeBestPrice" -> "bestPrice"
      [] c = "SubscribeSnapshots" -> "snapshot"
      [] c = "SubscribeOrderBookDiff" -> "orderBookDiff"

\* The tasks that call Write on a recorder.
Writers == Consumers \ {"fan-out"}

\* A started consumer receives an event and enters Write on its recorder.
ConsumerReceive(c) ==
    /\ c \in started[Followed]
    /\ cons[c] = "range"
    /\ cons' = [cons EXCEPT ![c] = "Write"]
    /\ UNCHANGED <<mainPc, lis, fill, recState, tickFailed>>
    /\ UNCHANGED <<loggerVars, setupVars, trackVars, reconcilerVars, decideVars, recorderVars, streamVars,
                   fanoutVars>>

\* Write returns (its error, if any, is logged) and the consumer goes back to
\* its receive.
ConsumerWritten(c) ==
    /\ cons[c] = "Write"
    /\ cons' = [cons EXCEPT ![c] = "range"]
    /\ UNCHANGED <<mainPc, lis, fill, recState, tickFailed>>
    /\ UNCHANGED <<loggerVars, setupVars, trackVars, reconcilerVars, decideVars, recorderVars, streamVars,
                   fanoutVars>>

InitWriters ==
    /\ ReconcilerStart /\ DecideIdle /\ RecorderStart /\ StreamStart /\ FanOutStart
    /\ TasksStart /\ SetupStart /\ LoggerStart /\ TrackStart

NextWriters ==
    \/ MakeChannels
    \/ \E ok \in BOOLEAN : OpenRecorder(ok)
    \/ StartTasks
    \/ \E c \in Writers : ConsumerReceive(c)
    \/ \E c \in Writers : ConsumerWritten(c)

SpecWriters == InitWriters /\ [][NextWriters]_vars

\* The consumers that are inside Write on recorder d.
WritingTo(d) == {c \in Writers : cons[c] = "Write" /\ RecorderOf(c) = d}

\* C32: recorder writes are serialized per (symbol, data type): each recorder
\* is handed to exactly one consumer, a consumer writes only a recorder that
\* was opened, and at no time are two tasks inside Write on the same recorder.
C32_OneWriterPerRecorder ==
    \A d \in RecorderTypes :
        /\ Cardinality({c \in Writers : RecorderOf(c) = d}) = 1
        /\ Cardinality(WritingTo(d)) <= 1
        /\ WritingTo(d) # {} => d \in opened[Followed]

\* All five consumers are inside Write at once, each on its own recorder.
C32_Witness ==
    /\ \A c \in Writers : cons[c] = "Write"
    /\ \A d \in RecorderTypes : Cardinality(WritingTo(d)) = 1

----------------------------------------------------------------------------
\* Claims about the snapshot fan-out (SpecFanOut, SpecFanOutFair)

\* The snapshot the fan-out goroutine has taken from rawSnapshotCh and not yet
\* sent to snapshotDiffCh / to snapshotRecCh.
OwedToDiff == IF fanout.pc = "snapshotDiffCh" THEN <<fanout.snapshot>> ELSE <<>>
OwedToRec == IF fanout.pc \in {"snapshotDiffCh", "snapshotRecCh"} THEN <<fanout.snapshot>> ELSE <<>>

====
